---------------------------- MODULE Spec2Model ----------------------------
(***************************************************************************)
(* Red-black tree set of od-b/rbtree (src/src/common.h): heap of nodes,    *)
(* the shared sentinel, insertion with balancing, search and the Morris    *)
(* in-order iterator.                                                      *)
(***************************************************************************)
EXTENDS Integers, Sequences, FiniteSets, TLC

(* ------------------------------ bounds -------------------------------- *)

\* the caller's int objects hold the values 1..MaxVal
MaxVal == 7

\* the values 1..DupVals exist in two distinct int objects (equal per the
\* comparator, different addresses)
DupVals == 1

(* ----------------------- pointers and elements ------------------------ *)

\* the C null pointer
NULL == -1

\* address of the static sentinel node (#define NIL &sentinel)
NIL == 0

\* enum tnode_color
RED == 0

BLACK == 1

\* search result of a traversal that never leaves its loop
DIVERGES == -2

\* addresses of the caller's int objects: object a holds the value Deref(a);
\* MaxVal + v is the second object holding v
Elems == (1..MaxVal) \cup {MaxVal + v : v \in 1..DupVals}

Deref(a) == ((a - 1) % MaxVal) + 1

\* int compare_integers(const int *a, const int *b)
compare_integers(a, b) == Deref(a) - Deref(b)

\* malloc(sizeof(tnode_t)) in node_create: any free address may come back and
\* the program only ever tests node addresses for equality; the model takes
\* the cell numbered after the set and the element's value, which is free
\* because a node is created only when no node of the set holds an equal
\* element
NodeAddr(s, elem) == (s - 1) * MaxVal + Deref(elem)

(* ------------------------------- state -------------------------------- *)

VARIABLES
    mem,      \* heap: address -> struct tnode (address NIL is the sentinel)
    sets,     \* set handle -> struct set
    iter,     \* the caller's set_iter_t, or NoIter
    yielded,  \* what the caller's hasnext/next loop has received so far
    snap,     \* heap when the live iterator was created
    inserted, \* values passed to set_insert so far
    first,    \* value -> the first int object with that value passed to set_insert
    nNull,    \* number of set_insert calls that returned NULL
    last,     \* the last API call: operation, argument, return value
    hung      \* TRUE when a call did not return: endless loop, crash or PANIC

vars == <<mem, sets, iter, yielded, snap, inserted, first, nNull, last, hung>>

NoIter == [set |-> NULL, node |-> NULL]

\* static tnode_t sentinel = {.color = BLACK};
sentinel == [color |-> BLACK, elem |-> NULL, parent |-> NULL, left |-> NULL, right |-> NULL]

\* a world is the part of the state the set functions read and write
World == [mem |-> mem, sets |-> sets]

SetField(W, p, f, v) == [W EXCEPT !.mem[p][f] = v]

SetRoot(W, s, v) == [W EXCEPT !.sets[s].root = v]

(* -------------------------- create, length ---------------------------- *)

\* set_t *set_create(cmp_fn cmpfn)
set_create == [root |-> NIL, length |-> 0, n_iterators |-> 0]

\* size_t set_length(set_t *set)
set_length(W, s) == W.sets[s].length

(* ------------------------------ rotation ------------------------------ *)

\* a rotation that sets the moved subtree's parent without testing for NIL
rotate_left_move_unguarded(W, u, v) ==
    SetField(SetField(W, u, "right", W.mem[v].left), W.mem[v].left, "parent", u)

\* rotate_left, lines 157-160: u->right = v->left and the moved subtree's parent
rotate_left_move(W, u, v) ==
    LET c == W.mem[v].left
    IN  IF c # NIL
        THEN SetField(SetField(W, u, "right", c), c, "parent", u)
        ELSE SetField(W, u, "right", c)

\* rotate_left, lines 162-169: v takes u's place under u's parent or as root
rotate_left_replace(W, s, u, v) ==
    LET up == W.mem[u].parent
    IN  IF up = NIL THEN SetRoot(SetField(W, v, "parent", up), s, v)
        ELSE IF u = W.mem[up].left THEN SetField(SetField(W, v, "parent", up), up, "left", v)
        ELSE SetField(SetField(W, v, "parent", up), up, "right", v)

\* rotate_left, lines 171-172: v->left = u; u->parent = v
rotate_left_link(W, u, v) == SetField(SetField(W, v, "left", u), u, "parent", v)

\* static inline void rotate_left(set_t *set, tnode_t *u), with v = u->right
rotate_left_at(W, s, u, v) ==
    rotate_left_link(rotate_left_replace(rotate_left_move(W, u, v), s, u, v), u, v)

rotate_left(W, s, u) == rotate_left_at(W, s, u, W.mem[u].right)

\* a rotation that sets the moved subtree's parent without testing for NIL
rotate_right_move_unguarded(W, u, v) ==
    SetField(SetField(W, u, "left", W.mem[v].right), W.mem[v].right, "parent", u)

\* rotate_right, lines 179-182: u->left = v->right and the moved subtree's parent
rotate_right_move(W, u, v) ==
    LET c == W.mem[v].right
    IN  IF c # NIL
        THEN SetField(SetField(W, u, "left", c), c, "parent", u)
        ELSE SetField(W, u, "left", c)

\* rotate_right, lines 184-191: v takes u's place under u's parent or as root
rotate_right_replace(W, s, u, v) ==
    LET up == W.mem[u].parent
    IN  IF up = NIL THEN SetRoot(SetField(W, v, "parent", up), s, v)
        ELSE IF u = W.mem[up].right THEN SetField(SetField(W, v, "parent", up), up, "right", v)
        ELSE SetField(SetField(W, v, "parent", up), up, "left", v)

\* rotate_right, lines 193-194: v->right = u; u->parent = v
rotate_right_link(W, u, v) == SetField(SetField(W, v, "right", u), u, "parent", v)

\* static inline void rotate_right(set_t *set, tnode_t *u), with v = u->left
rotate_right_at(W, s, u, v) ==
    rotate_right_link(rotate_right_replace(rotate_right_move(W, u, v), s, u, v), u, v)

rotate_right(W, s, u) == rotate_right_at(W, s, u, W.mem[u].left)

(* ------------------------------ insertion ----------------------------- *)

\* the state of the loop of post_insert_balance: the world, curr, and counts
\* of the rotations and red-uncle steps made so far
BalanceState(W, curr) == [W |-> W, curr |-> curr, rots |-> 0, c1 |-> 0]

\* case 1, lines 212-215: red uncle, recolor and move up
balance_case1(B, par, gp, unc) ==
    [B EXCEPT !.W = SetField(SetField(SetField(B.W, unc, "color", BLACK),
                                      par, "color", BLACK), gp, "color", RED),
              !.curr = gp,
              !.c1 = @ + 1]

\* a case 2 that rotates par, undoes the rotation and makes it again
balance_case2_redone(B, s, par, par_is_leftchild) ==
    [B EXCEPT !.W = IF par_is_leftchild
                    THEN rotate_left(rotate_right(rotate_left(B.W, s, par), s, B.curr), s, par)
                    ELSE rotate_right(rotate_left(rotate_right(B.W, s, par), s, B.curr), s, par),
              !.curr = par,
              !.rots = @ + 3]

\* case 2, lines 219-224 and 228-233: curr is an inner grandchild; rotate par,
\* then curr = par (par = curr->parent is read again in case 3)
balance_case2(B, s, par, par_is_leftchild) ==
    [B EXCEPT !.W = IF par_is_leftchild THEN rotate_left(B.W, s, par)
                                        ELSE rotate_right(B.W, s, par),
              !.curr = par,
              !.rots = @ + 1]

\* lines 239-240: par->color = BLACK; gp->color = RED
balance_recolor(W, par, gp) == SetField(SetField(W, par, "color", BLACK), gp, "color", RED)

\* case 3, lines 226, 235, 239-241: rotate gp, fix the colors, leave the loop;
\* par is curr's parent here on both paths into the case
balance_case3(B, s, gp, par_is_leftchild) ==
    [B EXCEPT !.W = balance_recolor(IF par_is_leftchild THEN rotate_right(B.W, s, gp)
                                                        ELSE rotate_left(B.W, s, gp),
                                    B.W.mem[B.curr].parent, gp),
              !.rots = @ + 1]

\* balancing that never enters its loop
balance_loop_skipped(B, s) == B

\* the while loop of post_insert_balance
RECURSIVE balance_loop(_, _)
balance_loop(B, s) ==
    IF B.W.mem[B.W.mem[B.curr].parent].color # RED THEN B
    ELSE
      LET par == B.W.mem[B.curr].parent
          gp  == B.W.mem[par].parent
          par_is_leftchild == (B.W.mem[gp].left = par)
          unc == IF par_is_leftchild THEN B.W.mem[gp].right ELSE B.W.mem[gp].left
          inner == IF par_is_leftchild THEN B.curr = B.W.mem[par].right
                                       ELSE B.curr = B.W.mem[par].left
      IN  IF B.W.mem[unc].color = RED
          THEN balance_loop(balance_case1(B, par, gp, unc), s)
          ELSE balance_case3(IF inner THEN balance_case2(B, s, par, par_is_leftchild) ELSE B,
                             s, gp, par_is_leftchild)

\* line 246 left out: the root keeps the color the loop gave it
balance_finish_rootkept(B, s) ==
    [W       |-> B.W,
     rootred |-> B.W.mem[B.W.sets[s].root].color = RED,
     rots    |-> B.rots,
     c1      |-> B.c1]

\* line 246: set->root->color = BLACK; the result also tells whether the root
\* was red when the loop ended, and the loop's counts
balance_finish(B, s) ==
    [W       |-> SetField(B.W, B.W.sets[s].root, "color", BLACK),
     rootred |-> B.W.mem[B.W.sets[s].root].color = RED,
     rots    |-> B.rots,
     c1      |-> B.c1]

\* static void post_insert_balance(set_t *set, tnode_t *added_node)
post_insert_balance(W, s, added_node) ==
    balance_finish(balance_loop(BalanceState(W, added_node), s), s)

\* node creation that ignores the color asked for
node_create_black(W, a, color, elem, parent) ==
    [W EXCEPT !.mem = a :> [color |-> BLACK, elem |-> elem, parent |-> parent,
                            left |-> NIL, right |-> NIL] @@ @]

\* static inline tnode_t *node_create(tnode_color_t color, void *elem, tnode_t *parent)
\* (malloc succeeds; the new cell is at address a)
node_create(W, a, color, elem, parent) ==
    [W EXCEPT !.mem = a :> [color |-> color, elem |-> elem, parent |-> parent,
                            left |-> NIL, right |-> NIL] @@ @]

\* traversal that takes &curr->left as the new node's place on both sides
RECURSIVE node_insert_loop_leftref(_, _, _, _)
node_insert_loop_leftref(W, s, elem, curr) ==
    LET cmp == compare_integers(elem, W.mem[curr].elem)
        a   == NodeAddr(s, elem)
    IN  IF cmp = 0 THEN [W |-> W, node |-> NIL, duplicate |-> curr]
        ELSE IF cmp > 0 THEN
            IF W.mem[curr].right = NIL
            THEN [W |-> SetField(node_create(W, a, RED, elem, curr), curr, "left", a),
                  node |-> a, duplicate |-> NULL]
            ELSE node_insert_loop_leftref(W, s, elem, W.mem[curr].right)
        ELSE
            IF W.mem[curr].left = NIL
            THEN [W |-> SetField(node_create(W, a, RED, elem, curr), curr, "left", a),
                  node |-> a, duplicate |-> NULL]
            ELSE node_insert_loop_leftref(W, s, elem, W.mem[curr].left)

\* traversal that stores the new reference in the node found equal
RECURSIVE node_insert_loop_replacing(_, _, _, _)
node_insert_loop_replacing(W, s, elem, curr) ==
    LET cmp == compare_integers(elem, W.mem[curr].elem)
        a   == NodeAddr(s, elem)
    IN  IF cmp = 0 THEN [W |-> SetField(W, curr, "elem", elem), node |-> NIL,
                         duplicate |-> curr]
        ELSE IF cmp > 0 THEN
            IF W.mem[curr].right = NIL
            THEN [W |-> SetField(node_create(W, a, RED, elem, curr), curr, "right", a),
                  node |-> a, duplicate |-> NULL]
            ELSE node_insert_loop_replacing(W, s, elem, W.mem[curr].right)
        ELSE
            IF W.mem[curr].left = NIL
            THEN [W |-> SetField(node_create(W, a, RED, elem, curr), curr, "left", a),
                  node |-> a, duplicate |-> NULL]
            ELSE node_insert_loop_replacing(W, s, elem, W.mem[curr].left)

\* static tnode_t *node_insert(set_t *set, void *elem, tnode_t **duplicate)
\* result: the world, the returned node and *duplicate
RECURSIVE node_insert_loop(_, _, _, _)
node_insert_loop(W, s, elem, curr) ==
    LET cmp == compare_integers(elem, W.mem[curr].elem)
        a   == NodeAddr(s, elem)
    IN  IF cmp = 0 THEN [W |-> W, node |-> NIL, duplicate |-> curr]
        ELSE IF cmp > 0 THEN
            IF W.mem[curr].right = NIL
            THEN [W |-> SetField(node_create(W, a, RED, elem, curr), curr, "right", a),
                  node |-> a, duplicate |-> NULL]
            ELSE node_insert_loop(W, s, elem, W.mem[curr].right)
        ELSE
            IF W.mem[curr].left = NIL
            THEN [W |-> SetField(node_create(W, a, RED, elem, curr), curr, "left", a),
                  node |-> a, duplicate |-> NULL]
            ELSE node_insert_loop(W, s, elem, W.mem[curr].left)

node_insert(W, s, elem) == node_insert_loop(W, s, elem, W.sets[s].root)

\* what set_insert hands back: the world and the returned pointer, with the
\* observations of the balancing
InsertResult(W, ret, rootred, rots, c1) ==
    [W |-> W, ret |-> ret, rootred |-> rootred, rots |-> rots, c1 |-> c1]

\* set_insert, lines 316-324: the tree does not have a root yet
set_insert_root(W, s, elem, a) ==
    InsertResult([SetRoot(node_create(W, a, BLACK, elem, NIL), s, a)
                     EXCEPT !.sets[s].length = @ + 1],
                 NULL, FALSE, 0, 0)

\* set_insert, lines 336-343: count the new node, balance, return NULL
set_insert_balanced(P) == InsertResult(P.W, NULL, P.rootred, P.rots, P.c1)

\* a set_insert that counts the call before it looks at the duplicate
set_insert_node_counting(I, s) ==
    IF I.node = NIL
    THEN InsertResult([I.W EXCEPT !.sets[s].length = @ + 1],
                      I.W.mem[I.duplicate].elem, FALSE, 0, 0)
    ELSE set_insert_balanced(
             post_insert_balance([I.W EXCEPT !.sets[s].length = @ + 1], s, I.node))

\* set_insert, lines 332-343, with I the result of node_insert
set_insert_node(I, s) ==
    IF I.node = NIL
    THEN InsertResult(I.W, I.W.mem[I.duplicate].elem, FALSE, 0, 0)
    ELSE set_insert_balanced(
             post_insert_balance([I.W EXCEPT !.sets[s].length = @ + 1], s, I.node))

\* void *set_insert(set_t *set, void *elem)   (malloc succeeds)
set_insert(W, s, elem) ==
    IF W.sets[s].root = NIL
    THEN set_insert_root(W, s, elem, NodeAddr(s, elem))
    ELSE set_insert_node(node_insert(W, s, elem), s)

(* ------------------------------- search ------------------------------- *)

\* search with the two directions exchanged
RECURSIVE node_search_loop_mirrored(_, _, _, _)
node_search_loop_mirrored(W, elem, curr, fuel) ==
    IF curr = NIL THEN curr
    ELSE IF fuel = 0 THEN DIVERGES
    ELSE LET direction == compare_integers(elem, W.mem[curr].elem)
         IN  IF direction > 0
             THEN node_search_loop_mirrored(W, elem, W.mem[curr].left, fuel - 1)
             ELSE IF direction < 0
             THEN node_search_loop_mirrored(W, elem, W.mem[curr].right, fuel - 1)
             ELSE curr

\* static inline tnode_t *node_search(set_t *set, void *elem)
\* the loop visits at most one node per iteration, so a run of more
\* iterations than there are cells is in a cycle and never returns
RECURSIVE node_search_loop(_, _, _, _)
node_search_loop(W, elem, curr, fuel) ==
    IF curr = NIL THEN curr
    ELSE IF fuel = 0 THEN DIVERGES
    ELSE LET direction == compare_integers(elem, W.mem[curr].elem)
         IN  IF direction > 0 THEN node_search_loop(W, elem, W.mem[curr].right, fuel - 1)
             ELSE IF direction < 0 THEN node_search_loop(W, elem, W.mem[curr].left, fuel - 1)
             ELSE curr

node_search(W, s, elem) ==
    node_search_loop(W, elem, W.sets[s].root, Cardinality(DOMAIN W.mem))

\* void *set_get(set_t *set, void *elem)
set_get(W, s, elem) ==
    LET node == node_search(W, s, elem)
    IN  IF node = DIVERGES THEN DIVERGES ELSE W.mem[node].elem

(* ------------------------------ iteration ----------------------------- *)

\* the inner loop of next_node_inorder: far right node of curr's left subtree
RECURSIVE predecessor(_, _, _)
predecessor(W, curr, pre) ==
    IF W.mem[pre].right # NIL /\ W.mem[pre].right # curr
    THEN predecessor(W, curr, W.mem[pre].right)
    ELSE pre

\* traversal that hands out a node when it threads it, not when it returns
RECURSIVE inorder_loop_preorder(_, _)
inorder_loop_preorder(W, curr) ==
    LET R == IF W.mem[curr].left = NIL
             THEN [W |-> W, curr |-> W.mem[curr].right, ret |-> curr]
             ELSE LET pre == predecessor(W, curr, W.mem[curr].left)
                  IN  IF W.mem[pre].right = NIL
                      THEN [W    |-> SetField(W, pre, "right", curr),
                            curr |-> W.mem[curr].left, ret |-> curr]
                      ELSE [W    |-> SetField(W, pre, "right", NIL),
                            curr |-> W.mem[curr].right, ret |-> NIL]
    IN  IF R.ret = NIL /\ R.curr # NIL THEN inorder_loop_preorder(R.W, R.curr) ELSE R

\* traversal that cuts curr's left link when it threads the predecessor
RECURSIVE inorder_loop_detaching(_, _)
inorder_loop_detaching(W, curr) ==
    LET R == IF W.mem[curr].left = NIL
             THEN [W |-> W, curr |-> W.mem[curr].right, ret |-> curr]
             ELSE LET pre == predecessor(W, curr, W.mem[curr].left)
                  IN  IF W.mem[pre].right = NIL
                      THEN [W    |-> SetField(SetField(W, pre, "right", curr), curr, "left", NIL),
                            curr |-> W.mem[curr].left, ret |-> NIL]
                      ELSE [W    |-> SetField(W, pre, "right", NIL),
                            curr |-> W.mem[curr].right, ret |-> curr]
    IN  IF R.ret = NIL THEN inorder_loop_detaching(R.W, R.curr) ELSE R

\* the loop while (ret == NIL) of next_node_inorder
RECURSIVE inorder_loop(_, _)
inorder_loop(W, curr) ==
    LET R == IF W.mem[curr].left = NIL
             THEN [W |-> W, curr |-> W.mem[curr].right, ret |-> curr]
             ELSE LET pre == predecessor(W, curr, W.mem[curr].left)
                  IN  IF W.mem[pre].right = NIL
                      THEN [W    |-> SetField(W, pre, "right", curr),
                            curr |-> W.mem[curr].left, ret |-> NIL]
                      ELSE [W    |-> SetField(W, pre, "right", NIL),
                            curr |-> W.mem[curr].right, ret |-> curr]
    IN  IF R.ret = NIL THEN inorder_loop(R.W, R.curr) ELSE R

\* a traversal that starts over at the root once it is exhausted
next_node_inorder_wrapping(W, it) ==
    IF it.node = NIL /\ W.sets[it.set].root = NIL THEN [W |-> W, iter |-> it, ret |-> NIL]
    ELSE LET R == inorder_loop(W, IF it.node = NIL THEN W.sets[it.set].root ELSE it.node)
         IN  [W |-> R.W, iter |-> [it EXCEPT !.node = R.curr], ret |-> R.ret]

\* static tnode_t *next_node_inorder(set_iter_t *iter)
\* result: the world, the iterator and the returned node
next_node_inorder(W, it) ==
    IF it.node = NIL THEN [W |-> W, iter |-> it, ret |-> NIL]
    ELSE LET R == inorder_loop(W, it.node)
         IN  [W |-> R.W, iter |-> [it EXCEPT !.node = R.curr], ret |-> R.ret]

\* an iterator whose creation is not counted by the set
set_createiter_uncounted(W, s) ==
    [W    |-> W,
     iter |-> [set |-> s, node |-> W.sets[s].root]]

\* set_iter_t *set_createiter(set_t *set)   (malloc succeeds)
set_createiter(W, s) ==
    [W    |-> [W EXCEPT !.sets[s].n_iterators = @ + 1],
     iter |-> [set |-> s, node |-> W.sets[s].root]]

\* a test that never sees a next element
set_hasnext_never(it) == IF it.node = NIL THEN 0 ELSE 0

\* int set_hasnext(set_iter_t *iter)
set_hasnext(it) == IF it.node = NIL THEN 0 ELSE 1

\* the loop of set_destroyiter
RECURSIVE drain(_, _)
drain(W, it) ==
    IF set_hasnext(it) = 1
    THEN LET R == next_node_inorder(W, it) IN drain(R.W, R.iter)
    ELSE [W |-> W, iter |-> it]

\* destruction that frees the iterator without finishing the traversal
set_destroyiter_undrained(W, it) ==
    [W EXCEPT !.sets[it.set].n_iterators = @ - 1]

\* void set_destroyiter(set_iter_t *iter)
set_destroyiter(W, it) ==
    LET D == drain(W, it)
    IN  [D.W EXCEPT !.sets[D.iter.set].n_iterators = @ - 1]

\* void *set_next(set_iter_t *iter)
set_next(W, it) ==
    LET R == next_node_inorder(W, it)
    IN  [W |-> R.W, iter |-> R.iter, ret |-> R.W.mem[R.ret].elem]

(* -------------------------------- copy -------------------------------- *)

\* a copied node that does not get the color of the original
copy_node_red(W, c, orig_node, parent) ==
    [W    |-> [W EXCEPT !.mem = NodeAddr(c, W.mem[orig_node].elem) :>
                   [color |-> RED, elem |-> W.mem[orig_node].elem,
                    parent |-> parent, left |-> NULL, right |-> NULL] @@ @],
     node |-> NodeAddr(c, W.mem[orig_node].elem)]

\* rec_set_copy, lines 388-395: the new node at the address malloc returned,
\* with color, elem and parent assigned.  left and right hold whatever malloc
\* left there; both are assigned before anything reads them.
copy_node(W, c, orig_node, parent) ==
    [W    |-> [W EXCEPT !.mem = NodeAddr(c, W.mem[orig_node].elem) :>
                   [color |-> W.mem[orig_node].color, elem |-> W.mem[orig_node].elem,
                    parent |-> parent, left |-> NULL, right |-> NULL] @@ @],
     node |-> NodeAddr(c, W.mem[orig_node].elem)]

\* new_node->left = <returned node>  /  new_node->right = <returned node>
copy_link(K, new_node, f) ==
    [W |-> SetField(K.W, new_node, f, K.node), node |-> new_node]

\* a copy that leaves out the left subtree of every node
RECURSIVE rec_set_copy_leftless(_, _, _, _)
rec_set_copy_leftless(W, c, orig_node, parent) ==
    IF orig_node = NIL THEN [W |-> W, node |-> NIL]
    ELSE LET K == copy_node(W, c, orig_node, parent)
         IN  copy_link(rec_set_copy_leftless(SetField(K.W, K.node, "left", NIL), c,
                                             W.mem[orig_node].right, K.node),
                       K.node, "right")

\* static tnode_t *rec_set_copy(tnode_t *orig_node, tnode_t *parent)
\* result: the world and the returned node; c names the set the copy is for
RECURSIVE rec_set_copy(_, _, _, _)
copy_left(K, c, orig_node) ==
    copy_link(rec_set_copy(K.W, c, K.W.mem[orig_node].left, K.node), K.node, "left")

\* a copy of the right subtree that is not told its parent
copy_right_parentless(K, c, orig_node) ==
    copy_link(rec_set_copy(K.W, c, K.W.mem[orig_node].right, NIL), K.node, "right")

copy_right(K, c, orig_node) ==
    copy_link(rec_set_copy(K.W, c, K.W.mem[orig_node].right, K.node), K.node, "right")

rec_set_copy(W, c, orig_node, parent) ==
    IF orig_node = NIL THEN [W |-> W, node |-> NIL]
    ELSE copy_right(copy_left(copy_node(W, c, orig_node, parent), c, orig_node),
                    c, orig_node)

\* a copy whose struct does not get the length of the original
set_copy_struct_nolength(K, c, set, g) ==
    [K.W EXCEPT !.sets = c :> [root |-> K.node, length |-> 0, n_iterators |-> g] @@ @]

\* set_copy, lines 404-414: the struct at handle c gets length and root;
\* n_iterators is never assigned and holds what malloc left there, g
set_copy_struct(K, c, set, g) ==
    [K.W EXCEPT !.sets = c :> [root |-> K.node, length |-> K.W.sets[set].length,
                               n_iterators |-> g] @@ @]

\* a copy of the struct only: the new set shares the nodes of the original
set_copy_shallow(W, c, set, g) ==
    [W EXCEPT !.sets = c :> [root |-> W.sets[set].root, length |-> W.sets[set].length,
                             n_iterators |-> g] @@ @]

\* static set_t *set_copy(set_t *set)   (malloc succeeds)
set_copy(W, c, set, g) ==
    set_copy_struct(rec_set_copy(W, c, W.sets[set].root, NIL), c, set, g)

(* -------------------------------- union ------------------------------- *)

\* a merge that walks the right subtree and the node but not the left subtree
RECURSIVE rec_set_merge_rightonly(_, _, _)
rec_set_merge_rightonly(W, target, root) ==
    IF root = NIL THEN W
    ELSE set_insert(rec_set_merge_rightonly(W, target, W.mem[root].right),
                    target, W.mem[root].elem).W

RECURSIVE rec_set_merge(_, _, _)
merge_left(W, target, root) == rec_set_merge(W, target, W.mem[root].left)

merge_self(W, target, root) == set_insert(W, target, W.mem[root].elem).W

\* static void rec_set_merge(set_t *target, tnode_t *root)
rec_set_merge(W, target, root) ==
    IF root = NIL THEN W
    ELSE merge_self(merge_left(rec_set_merge(W, target, W.mem[root].right),
                               target, root),
                    target, root)

\* set_union, lines 442-453, after the exchange of a and b
set_union_copy(W, a, b, c, g) ==
    IF a # b THEN rec_set_merge(set_copy(W, c, a, g), c, W.sets[b].root)
    ELSE set_copy(W, c, a, g)

\* a union that copies its first argument whatever the lengths
set_union_unswapped(W, a, b, c, g) == set_union_copy(W, a, b, c, g)

\* set_t *set_union(set_t *a, set_t *b): the world with the returned set at
\* handle c.  All sets of the model share one comparator.
set_union(W, a, b, c, g) ==
    IF W.sets[a].length < W.sets[b].length
    THEN set_union_copy(W, b, a, c, g)
    ELSE set_union_copy(W, a, b, c, g)

(* ----------------------------- intersection --------------------------- *)

RECURSIVE rec_set_intersection(_, _, _, _)
intersection_right(W, c, b, root_a) ==
    rec_set_intersection(W, c, b, W.mem[root_a].right)

\* if (set_get(b, root_a->elem)) set_insert(c, root_a->elem);
intersection_self(W, c, b, root_a) ==
    IF set_get(W, b, W.mem[root_a].elem) # NULL
    THEN set_insert(W, c, W.mem[root_a].elem).W
    ELSE W

\* static void rec_set_intersection(set_t *c, set_t *b, tnode_t *root_a)
rec_set_intersection(W, c, b, root_a) ==
    IF root_a = NIL THEN W
    ELSE intersection_self(
             intersection_right(rec_set_intersection(W, c, b, W.mem[root_a].left),
                                c, b, root_a),
             c, b, root_a)

\* a walk whose exchange of a and b replaces b only: the shorter a is both
\* walked and searched
set_intersection_walk_halfswap(W, a, b, c) ==
    IF W.sets[a].length < W.sets[b].length
    THEN rec_set_intersection(W, c, a, W.sets[a].root)
    ELSE rec_set_intersection(W, c, b, W.sets[a].root)

\* an intersection that walks the shorter input and searches the longer
set_intersection_walk_shorter(W, a, b, c) ==
    IF W.sets[a].length < W.sets[b].length
    THEN rec_set_intersection(W, c, b, W.sets[a].root)
    ELSE rec_set_intersection(W, c, a, W.sets[b].root)

\* set_intersection, lines 480-494: an empty set at handle c, then the walk
\* of the longer input
set_intersection_walk(W, a, b, c) ==
    IF W.sets[a].length < W.sets[b].length
    THEN rec_set_intersection(W, c, a, W.sets[b].root)
    ELSE rec_set_intersection(W, c, b, W.sets[a].root)

\* set_t *set_intersection(set_t *a, set_t *b)
set_intersection(W, a, b, c, g) ==
    IF a = b THEN set_copy(W, c, a, g)
    ELSE set_intersection_walk([W EXCEPT !.sets = c :> set_create @@ @], a, b, c)

(* ------------------------------ difference ---------------------------- *)

RECURSIVE rec_set_difference(_, _, _, _)
difference_right(W, c, b, root_a) ==
    rec_set_difference(W, c, b, W.mem[root_a].right)

\* a step that keeps the elements found in b and drops the others
difference_self_found(W, c, b, root_a) ==
    IF set_get(W, b, W.mem[root_a].elem) # NULL
    THEN set_insert(W, c, W.mem[root_a].elem).W
    ELSE W

\* if (set_get(b, root_a->elem) == NULL) set_insert(c, root_a->elem);
difference_self(W, c, b, root_a) ==
    IF set_get(W, b, W.mem[root_a].elem) = NULL
    THEN set_insert(W, c, W.mem[root_a].elem).W
    ELSE W

\* static void rec_set_difference(set_t *c, set_t *b, tnode_t *root_a)
rec_set_difference(W, c, b, root_a) ==
    IF root_a = NIL THEN W
    ELSE difference_self(
             difference_right(rec_set_difference(W, c, b, W.mem[root_a].left),
                              c, b, root_a),
             c, b, root_a)

\* set_difference, lines 526-530, with the empty set already at handle c
set_difference_walk(W, a, b, c) ==
    IF a # b THEN rec_set_difference(W, c, b, W.sets[a].root) ELSE W

\* set_t *set_difference(set_t *a, set_t *b)
set_difference(W, a, b, c) ==
    set_difference_walk([W EXCEPT !.sets = c :> set_create @@ @], a, b, c)

(* ------------------------------- destroy ------------------------------ *)

\* lines 132-135: elem_freefn(node->elem) if the caller gave one, then
\* free(node); the element joins the record of released elements and the
\* address the record of freed cells
destroy_free(D, m, node) ==
    IF D.crashed THEN D
    ELSE [D EXCEPT !.released = IF D.elem_freefn THEN Append(@, m[node].elem) ELSE @,
                   !.freed = Append(@, node)]

\* a destruction that frees the node before it walks the subtrees
RECURSIVE rec_postorder_destroy_preorder(_, _, _, _)
rec_postorder_destroy_preorder(D, m, node, path) ==
    IF D.crashed \/ node = NIL THEN D
    ELSE IF node \in path THEN [D EXCEPT !.crashed = TRUE]
    ELSE rec_postorder_destroy_preorder(
             rec_postorder_destroy_preorder(destroy_free(D, m, node), m, m[node].left,
                                            path \cup {node}),
             m, m[node].right, path \cup {node})

\* static void rec_postorder_destroy(set_t *set, tnode_t *node, free_fn elem_freefn)
\* m is the heap, path the nodes whose calls are on the stack.  A call on a
\* node of the path repeats its ancestor's call with nothing changed in
\* between, so the recursion never comes back: the stack runs out and the
\* program dies (crashed).
RECURSIVE rec_postorder_destroy(_, _, _, _)
destroy_right(D, m, node, path) ==
    rec_postorder_destroy(D, m, m[node].right, path)

rec_postorder_destroy(D, m, node, path) ==
    IF D.crashed \/ node = NIL THEN D
    ELSE IF node \in path THEN [D EXCEPT !.crashed = TRUE]
    ELSE destroy_free(
             destroy_right(
                 rec_postorder_destroy(D, m, m[node].left, path \cup {node}),
                 m, node, path \cup {node}),
             m, node)

\* void set_destroy(set_t *set, free_fn elem_freefn)
\* elem_freefn is TRUE when the caller passes a destructor, FALSE for NULL.
\* Result: whether the diagnostic was printed, the cells freed and the
\* elements handed to the destructor, in order, and whether the call died
\* before returning
set_destroy(W, s, elem_freefn) ==
    rec_postorder_destroy(
        [diagnostic |-> W.sets[s].n_iterators # 0, freed |-> << >>, released |-> << >>,
         crashed |-> FALSE, elem_freefn |-> elem_freefn],
        W.mem, W.sets[s].root, {})

(* ------------------------------- actions ------------------------------ *)

\* the set under test
S == 1

Call(op, arg, ret) ==
    [op |-> op, arg |-> arg, ret |-> ret, flag |-> FALSE, rots |-> 0, c1 |-> 0]

Init ==
    /\ mem = (NIL :> sentinel)
    /\ sets = (S :> set_create)
    /\ iter = NoIter
    /\ yielded = << >>
    /\ snap = (NIL :> sentinel)
    /\ inserted = {}
    /\ first = << >>
    /\ nNull = 0
    /\ last = Call("create", NULL, NULL)
    /\ hung = FALSE

\* the state after set_insert returned R
Inserted(R, e) ==
    /\ mem' = R.W.mem
    /\ sets' = R.W.sets
    /\ nNull' = IF R.ret = NULL THEN nNull + 1 ELSE nNull
    /\ last' = [Call("insert", e, R.ret) EXCEPT
                   !.flag = R.rootred, !.rots = R.rots, !.c1 = R.c1]

\* set_insert(S, e).  The caller keeps the iterator's contract (tree.h: "never
\* alter the structure of a tree while an iterator is active"): it inserts
\* only when it holds no iterator on the set.
Insert(e) ==
    /\ ~hung
    /\ iter = NoIter
    /\ Inserted(set_insert(World, S, e), e)
    /\ inserted' = inserted \cup {Deref(e)}
    /\ first' = IF Deref(e) \in DOMAIN first THEN first ELSE (Deref(e) :> e) @@ first
    /\ UNCHANGED <<iter, yielded, snap, hung>>

\* set_get(S, e), at any time, also between two set_next calls as in
\* rbtree_test__inorder_iter; a search that cannot leave its loop hangs the
\* program
Get(e) ==
    /\ ~hung
    /\ LET r == set_get(World, S, e)
       IN  /\ last' = Call("get", e, r)
           /\ hung' = (r = DIVERGES)
    /\ UNCHANGED <<mem, sets, iter, yielded, snap, inserted, first, nNull>>

\* set_createiter(S).  The caller holds one iterator at a time (the warning
\* of set_createiter: several active iterators are undefined behavior).
CreateIter ==
    /\ ~hung
    /\ iter = NoIter
    /\ LET R == set_createiter(World, S)
       IN  /\ mem' = R.W.mem
           /\ sets' = R.W.sets
           /\ iter' = R.iter
    /\ yielded' = << >>
    /\ snap' = mem
    /\ last' = Call("createiter", NULL, NULL)
    /\ UNCHANGED <<inserted, first, nNull, hung>>

\* set_hasnext(iter)
HasNext ==
    /\ ~hung
    /\ iter # NoIter
    /\ last' = Call("hasnext", Len(yielded), set_hasnext(iter))
    /\ UNCHANGED <<mem, sets, iter, yielded, snap, inserted, first, nNull, hung>>

\* set_next(iter); the caller's loop appends what it gets while set_hasnext
\* was 1 before the call
Next_ ==
    /\ ~hung
    /\ iter # NoIter
    /\ LET R == set_next(World, iter)
       IN  /\ mem' = R.W.mem
           /\ sets' = R.W.sets
           /\ iter' = R.iter
           /\ yielded' = IF set_hasnext(iter) = 1 THEN Append(yielded, R.ret) ELSE yielded
           /\ last' = [Call("next", set_hasnext(iter), R.ret) EXCEPT !.flag = (mem # snap)]
    /\ UNCHANGED <<snap, inserted, first, nNull, hung>>

\* set_destroyiter(iter)
DestroyIter ==
    /\ ~hung
    /\ iter # NoIter
    /\ LET W1 == set_destroyiter(World, iter)
       IN  /\ mem' = W1.mem
           /\ sets' = W1.sets
    /\ iter' = NoIter
    /\ yielded' = << >>
    /\ snap' = (NIL :> sentinel)
    /\ last' = [Call("destroyiter", Len(yielded), NULL) EXCEPT !.flag = (mem # snap)]
    /\ UNCHANGED <<inserted, first, nNull, hung>>

Next ==
    \/ \E e \in Elems : Insert(e)
    \/ \E e \in Elems : Get(e)
    \/ CreateIter
    \/ HasNext
    \/ Next_
    \/ DestroyIter

Spec == Init /\ [][Next]_vars

(* ---------------- actions of a program with several sets --------------- *)

\* the values held by the objects inserted into the input sets are 1..AlgVals
AlgVals == 3

\* the two sets the program fills and passes to the set operations
Inputs == {1, 2}

\* handle of the set a set operation returns
Result == 3

\* as in test_vals_create, every input set has int objects of its own:
\* object (s - 1) * MaxVal + v is the one of set s that holds v
Owned(s) == {(s - 1) * MaxVal + v : v \in 1..AlgVals}

AlgElems == UNION {Owned(s) : s \in Inputs}

\* what the unassigned n_iterators of a copied set may hold
Indeterminate == {0, 1}

SetOps == {"union", "intersection", "difference"}

\* a call with two arguments
Call2(op, arg, arg2, ret) ==
    [op |-> op, arg |-> arg, arg2 |-> arg2, ret |-> ret,
     flag |-> FALSE, rots |-> 0, c1 |-> 0]

InitAlgebra ==
    /\ mem = (NIL :> sentinel)
    /\ sets = [s \in Inputs |-> set_create]
    /\ iter = NoIter
    /\ yielded = << >>
    /\ snap = (NIL :> sentinel)
    /\ inserted = {}
    /\ first = << >>
    /\ nNull = 0
    /\ last = Call("create", NULL, NULL)
    /\ hung = FALSE

\* the result is as the set operation returned it
ResultFresh == Result \in DOMAIN sets /\ last.op \in SetOps

\* set_insert(s, e) on an input set with one of its objects, or on a result
\* with an object of either input.  While a result exists the program makes
\* one such call and then destroys the result.
AlgInsert(s, e) ==
    /\ ~hung
    /\ iter = NoIter
    /\ s \in DOMAIN sets
    /\ Result \in DOMAIN sets => ResultFresh
    /\ e \in (IF s = Result THEN AlgElems ELSE Owned(s))
    /\ LET R == set_insert(World, s, e)
       IN  /\ mem' = R.W.mem
           /\ sets' = R.W.sets
           /\ last' = [Call2("insert", s, e, R.ret) EXCEPT
                          !.flag = R.rootred, !.rots = R.rots, !.c1 = R.c1]
    /\ UNCHANGED <<iter, yielded, snap, inserted, first, nNull, hung>>

\* the state after a set operation returned the world W
Returned(W, op, a, b) ==
    /\ mem' = W.mem
    /\ sets' = W.sets
    /\ last' = Call2(op, a, b, Result)
    /\ UNCHANGED <<iter, yielded, snap, inserted, first, nNull, hung>>

\* c = set_union(a, b)
Union(a, b) ==
    /\ ~hung
    /\ iter = NoIter
    /\ Result \notin DOMAIN sets
    /\ \E g \in Indeterminate : Returned(set_union(World, a, b, Result, g), "union", a, b)

\* c = set_intersection(a, b)
Intersection(a, b) ==
    /\ ~hung
    /\ iter = NoIter
    /\ Result \notin DOMAIN sets
    /\ \E g \in Indeterminate :
           Returned(set_intersection(World, a, b, Result, g), "intersection", a, b)

\* c = set_difference(a, b)
Difference(a, b) ==
    /\ ~hung
    /\ iter = NoIter
    /\ Result \notin DOMAIN sets
    /\ Returned(set_difference(World, a, b, Result), "difference", a, b)

\* set_createiter(c) on a result nothing was inserted into
ResultCreateIter ==
    /\ ~hung
    /\ iter = NoIter
    /\ Result \in DOMAIN sets
    /\ last.op # "insert"
    /\ LET R == set_createiter(World, Result)
       IN  /\ mem' = R.W.mem
           /\ sets' = R.W.sets
           /\ iter' = R.iter
    /\ yielded' = << >>
    /\ snap' = mem
    /\ last' = Call("createiter", Result, NULL)
    /\ UNCHANGED <<inserted, first, nNull, hung>>

\* the record of a set_destroy(s, elem_freefn) call that ended as D says,
\* made while the program held the iterator it
DestroyCall(s, it, D) ==
    [op |-> "destroy", arg |-> s, arg2 |-> it, ret |-> D.freed, flag |-> D.diagnostic,
     rots |-> 0, c1 |-> 0, elem_freefn |-> D.elem_freefn, released |-> D.released]

\* the state after set_destroy(s, elem_freefn) ended as D says: the freed
\* cells and the struct are gone, and the iterator the program may still have
\* held is dropped with them; nothing changes when the call died.
Destroyed(D, s) ==
    /\ mem' = IF D.crashed THEN mem
              ELSE [p \in DOMAIN mem \ {D.freed[i] : i \in 1..Len(D.freed)} |-> mem[p]]
    /\ sets' = IF D.crashed THEN sets ELSE [t \in DOMAIN sets \ {s} |-> sets[t]]
    /\ hung' = D.crashed
    /\ last' = DestroyCall(s, iter, D)
    /\ iter' = IF D.crashed THEN iter ELSE NoIter
    /\ yielded' = IF D.crashed THEN yielded ELSE << >>
    /\ snap' = IF D.crashed THEN snap ELSE (NIL :> sentinel)

\* set_destroy(c, NULL), also while the program still holds an iterator on c
ResultDestroy ==
    /\ ~hung
    /\ Result \in DOMAIN sets
    /\ Destroyed(set_destroy(World, Result, FALSE), Result)
    /\ UNCHANGED <<inserted, first, nNull>>

NextAlgebra ==
    \/ \E s \in Inputs \cup {Result}, e \in AlgElems : AlgInsert(s, e)
    \/ \E a, b \in Inputs : Union(a, b)
    \/ \E a, b \in Inputs : Intersection(a, b)
    \/ \E a, b \in Inputs : Difference(a, b)
    \/ ResultCreateIter
    \/ Next_
    \/ DestroyIter
    \/ ResultDestroy

SpecAlgebra == InitAlgebra /\ [][NextAlgebra]_vars

(* ------------- actions of a program that destroys its set -------------- *)

\* the program has not destroyed its set
Alive == S \in DOMAIN sets

\* set_destroy(S, elem_freefn) as the last call on the set, with free as the
\* destructor (test_vals_destroy) or with NULL, also while the program still
\* holds an iterator
Destroy(elem_freefn) ==
    /\ ~hung
    /\ Alive
    /\ Destroyed(set_destroy(World, S, elem_freefn), S)
    /\ UNCHANGED <<inserted, first, nNull>>

NextDestroy ==
    \/ Alive /\ \E e \in Elems : Insert(e)
    \/ Alive /\ CreateIter
    \/ Next_
    \/ DestroyIter
    \/ \E elem_freefn \in BOOLEAN : Destroy(elem_freefn)

SpecDestroy == Init /\ [][NextDestroy]_vars

(* ----------------------- reading a tree off the heap ------------------- *)

\* the nodes of the subtree rooted at n
RECURSIVE Nodes(_, _)
Nodes(m, n) ==
    IF n = NIL THEN {} ELSE {n} \cup Nodes(m, m[n].left) \cup Nodes(m, m[n].right)

\* the elements of the subtree rooted at n, left to right
RECURSIVE InOrder(_, _)
InOrder(m, n) ==
    IF n = NIL THEN << >>
    ELSE InOrder(m, m[n].left) \o <<m[n].elem>> \o InOrder(m, m[n].right)

\* the numbers of black nodes met on the paths from n down to the sentinel
RECURSIVE BlackCounts(_, _)
BlackCounts(m, n) ==
    IF n = NIL THEN {0}
    ELSE {c + (IF m[n].color = BLACK THEN 1 ELSE 0) :
             c \in BlackCounts(m, m[n].left) \cup BlackCounts(m, m[n].right)}

Min(X) == CHOOSE x \in X : \A y \in X : x <= y

RECURSIVE Ascending(_)
Ascending(X) ==
    IF X = {} THEN << >> ELSE <<Min(X)>> \o Ascending(X \ {Min(X)})

\* what the set must hold: per inserted value the first object inserted, in
\* ascending order of value
Expected == [i \in 1..Cardinality(inserted) |-> first[Ascending(inserted)[i]]]

Root == sets[S].root

AfterInsert == last.op = "insert"

(* ------------------------------- claims ------------------------------- *)

\* C1: after every set_insert the tree is in binary-search order (for every
\* node, all elements of its left subtree compare less and all elements of
\* its right subtree compare greater) and its in-order sequence is exactly
\* the sorted distinct inserted elements.
C1_BinarySearchOrder ==
    AfterInsert =>
        /\ \A n \in Nodes(mem, Root) :
              /\ \A l \in Nodes(mem, mem[n].left) :
                    compare_integers(mem[l].elem, mem[n].elem) < 0
              /\ \A r \in Nodes(mem, mem[n].right) :
                    compare_integers(mem[r].elem, mem[n].elem) > 0
        /\ InOrder(mem, Root) = Expected
        /\ [i \in 1..Len(Expected) |-> Deref(Expected[i])] = Ascending(inserted)

\* an insertion that needed the double rotation, into a tree of five or more
C1_Witness ==
    /\ AfterInsert
    /\ last.ret = NULL
    /\ last.rots = 2
    /\ Len(InOrder(mem, Root)) >= 5

\* C2: after every completed set_insert no red node has a red child; the
\* sentinel counts as black.
C2_NoRedRed ==
    AfterInsert =>
        \A n \in Nodes(mem, Root) :
            mem[n].color = RED =>
                /\ mem[mem[n].left].color = BLACK
                /\ mem[mem[n].right].color = BLACK

\* a red-uncle recoloring that stopped below the root left a red inner node
C2_Witness ==
    /\ AfterInsert
    /\ last.c1 >= 1
    /\ ~last.flag
    /\ \E n \in Nodes(mem, Root) : mem[n].color = RED /\ mem[n].left # NIL

\* C3: after every completed set_insert every path from the root to the
\* sentinel passes through the same number of black nodes.
C3_EqualBlackCount ==
    AfterInsert => Cardinality(BlackCounts(mem, Root)) = 1

\* an insertion that rotated, in a tree of black height two
C3_Witness ==
    /\ AfterInsert
    /\ last.rots >= 1
    /\ BlackCounts(mem, Root) = {2}

\* C4: after every completed set_insert on a non-empty set the root is black,
\* also when the red-uncle recoloring reached the root in that insertion.
C4_RootBlack ==
    (AfterInsert /\ Root # NIL) => mem[Root].color = BLACK

\* the loop of the last insertion ended with a red root
C4_Witness ==
    /\ AfterInsert
    /\ last.flag
    /\ last.c1 >= 1
    /\ mem[Root].color = BLACK

\* the element the set must hold for the value of e, NULL when it holds none
Stored(e) == IF Deref(e) \in inserted THEN first[Deref(e)] ELSE NULL

\* C5: inserting an element equal to one already in the set returns the
\* reference already stored (the first one inserted, not the argument) and
\* leaves set_length and the tree's nodes, links and colors unchanged.
C5_DuplicateInsertIdempotent ==
    [][(last'.op = "insert" /\ Deref(last'.arg) \in inserted) =>
          /\ last'.ret = first[Deref(last'.arg)]
          /\ mem' = mem
          /\ sets' = sets]_vars

\* a duplicate insert answered with a stored object other than its argument
C5_Witness ==
    /\ AfterInsert
    /\ last.ret # NULL
    /\ last.ret # last.arg
    /\ last.ret = first[Deref(last.arg)]
    /\ sets[S].length >= 3

\* C6: set_insert returns NULL exactly when the set held no equal element
\* before the call, and set_length equals the number of calls that returned
\* NULL, which is the number of distinct elements inserted.
C6_NullIffNew ==
    /\ [](sets[S].length = nNull /\ nNull = Cardinality(inserted))
    /\ [][last'.op = "insert" =>
             ((last'.ret = NULL) <=> (Deref(last'.arg) \notin inserted))]_vars

\* a duplicate insert after four inserts that returned NULL
C6_Witness ==
    /\ AfterInsert
    /\ last.ret # NULL
    /\ nNull = 4
    /\ set_length(World, S) = 4

\* C7: with no iterator active, set_get(set, e) returns the stored element
\* that compares equal to e if there is one and NULL otherwise, and it does
\* not modify the set.
C7_GetFindsStored ==
    [][(last'.op = "get" /\ iter = NoIter) =>
          /\ last'.ret = Stored(last'.arg)
          /\ mem' = mem
          /\ sets' = sets]_vars

\* a search that went below the root and found an object other than the query
C7_Witness ==
    /\ last.op = "get"
    /\ iter = NoIter
    /\ last.ret # NULL
    /\ last.ret # last.arg
    /\ mem[Root].elem # last.ret

C9_HasNextIffRemaining ==
    last.op = "hasnext" =>
        /\ last.ret \in {0, 1}
        /\ (last.ret = 1) <=> (Len(yielded) < set_length(World, S))

\* set_hasnext answered 0 after the last of three or more elements
C9_Witness ==
    /\ last.op = "hasnext"
    /\ last.ret = 0
    /\ Len(yielded) >= 3
    /\ Len(yielded) = set_length(World, S)

\* C10: once an iterator is exhausted, or destroyed after any number of
\* set_next calls, every link of the tree is what it was before the iterator
\* was created (no thread is left).
C10_NoResidualThread ==
    /\ []((iter # NoIter /\ set_hasnext(iter) = 0) => mem = snap)
    /\ [][last'.op = "destroyiter" => mem' = snap]_vars

\* an iterator destroyed part-way, while threads were installed
C10_Witness ==
    /\ last.op = "destroyiter"
    /\ last.flag
    /\ last.arg >= 1
    /\ last.arg < set_length(World, S)
    /\ \A n \in Nodes(mem, Root) : mem[n].right = NIL \/ mem[mem[n].right].parent = n

(* ------------------------ claims on set operations --------------------- *)

\* the payload references held by the nodes of set s
Payloads(s) == {mem[n].elem : n \in Nodes(mem, sets[s].root)}

\* the values a set of int objects holds
Vals(X) == {Deref(e) : e \in X}

\* set_get(s, e) returns an element
Found(s, e) == set_get(World, s, e) \notin {NULL, DIVERGES}

AfterSetOp == last.op \in SetOps

\* C11: set_union(a, b) returns a new set whose elements are exactly those in
\* a or in b: every element of a and of b is found in the result, and every
\* element of the result is found in a or in b (and is one of their payloads).
C11_UnionContents ==
    last.op = "union" =>
        /\ last.ret \notin {last.arg, last.arg2}
        /\ \A e \in Payloads(last.arg) \cup Payloads(last.arg2) : Found(last.ret, e)
        /\ \A e \in Payloads(last.ret) : Found(last.arg, e) \/ Found(last.arg2, e)
        /\ Payloads(last.ret) \subseteq Payloads(last.arg) \cup Payloads(last.arg2)
        /\ Vals(Payloads(last.ret)) =
               Vals(Payloads(last.arg)) \cup Vals(Payloads(last.arg2))

\* a union of two different sets that overlap and each hold a value the other
\* lacks
C11_Witness ==
    /\ last.op = "union"
    /\ last.arg # last.arg2
    /\ Vals(Payloads(last.arg)) \cap Vals(Payloads(last.arg2)) # {}
    /\ Vals(Payloads(last.arg)) \ Vals(Payloads(last.arg2)) # {}
    /\ Vals(Payloads(last.arg2)) \ Vals(Payloads(last.arg)) # {}
    /\ set_length(World, last.ret) = 3

\* C12: set_intersection(a, b) returns a new set whose elements are exactly
\* those present in both a and b, whichever of the two inputs is longer: every
\* element of the result is found in a and in b, and every element of one
\* input that is found in the other is found in the result.
C12_IntersectionContents ==
    last.op = "intersection" =>
        /\ last.ret \notin {last.arg, last.arg2}
        /\ \A e \in Payloads(last.ret) : Found(last.arg, e) /\ Found(last.arg2, e)
        /\ \A e \in Payloads(last.arg) : Found(last.arg2, e) => Found(last.ret, e)
        /\ \A e \in Payloads(last.arg2) : Found(last.arg, e) => Found(last.ret, e)
        /\ Payloads(last.ret) \subseteq Payloads(last.arg) \cup Payloads(last.arg2)
        /\ Vals(Payloads(last.ret)) =
               Vals(Payloads(last.arg)) \cap Vals(Payloads(last.arg2))

\* an intersection whose first argument is the shorter set: two elements
\* against three, both present in the longer set
C12_Witness ==
    /\ last.op = "intersection"
    /\ set_length(World, last.arg) = 2
    /\ set_length(World, last.arg2) = 3
    /\ Vals(Payloads(last.arg2)) \ Vals(Payloads(last.arg)) # {}
    /\ set_length(World, last.ret) = 2

\* C13: set_difference(a, b) returns a new set whose elements are exactly the
\* elements of a that are not in b.
C13_DifferenceContents ==
    last.op = "difference" =>
        /\ last.ret \notin {last.arg, last.arg2}
        /\ Payloads(last.ret) = {e \in Payloads(last.arg) : ~Found(last.arg2, e)}
        /\ \A e \in Payloads(last.ret) : Found(last.arg, e) /\ ~Found(last.arg2, e)
        /\ Vals(Payloads(last.ret)) =
               Vals(Payloads(last.arg)) \ Vals(Payloads(last.arg2))

\* a difference that keeps one element of a and drops another, with b
\* holding a value that a lacks
C13_Witness ==
    /\ last.op = "difference"
    /\ set_length(World, last.arg) = 2
    /\ set_length(World, last.ret) = 1
    /\ Vals(Payloads(last.arg2)) \ Vals(Payloads(last.arg)) # {}

\* C14: for all sets A and B, set_length(set_union(A, B)) equals
\* set_length(A) + set_length(B) - set_length(set_intersection(A, B)).
C14_UnionLength ==
    last.op = "union" =>
        \A g \in Indeterminate :
            set_length(World, last.ret) =
                set_length(World, last.arg) + set_length(World, last.arg2)
                - set_length(set_intersection(World, last.arg, last.arg2, Result + 1, g),
                             Result + 1)

\* a union of two sets of two elements each that share one of the values
C14_Witness ==
    /\ last.op = "union"
    /\ last.arg # last.arg2
    /\ set_length(World, last.arg) = 2
    /\ set_length(World, last.arg2) = 2
    /\ set_length(World, last.ret) = 3
    /\ set_length(set_intersection(World, last.arg, last.arg2, Result + 1, 0),
                  Result + 1) = 1

\* sets a and b hold the same values
EqualContents(a, b) == Vals(Payloads(a)) = Vals(Payloads(b))

\* C15: for every set A, set_union(A, A) and set_intersection(A, A) each have
\* exactly the elements and the length of A, and set_difference(A, A) is
\* empty with length 0; the same holds when the second argument is a distinct
\* set with equal contents.
C15_SelfOperations ==
    (AfterSetOp /\ EqualContents(last.arg, last.arg2)) =>
        IF last.op = "difference"
        THEN /\ sets[last.ret].root = NIL
             /\ set_length(World, last.ret) = 0
        ELSE /\ EqualContents(last.ret, last.arg)
             /\ set_length(World, last.ret) = set_length(World, last.arg)
             /\ Cardinality(Payloads(last.ret)) = set_length(World, last.arg)
             /\ Payloads(last.ret) \subseteq Payloads(last.arg) \cup Payloads(last.arg2)
             /\ last.arg = last.arg2 =>
                    InOrder(mem, sets[last.ret].root) = InOrder(mem, sets[last.arg].root)

\* an intersection of two distinct sets that hold the same three values
C15_Witness ==
    /\ last.op = "intersection"
    /\ last.arg # last.arg2
    /\ EqualContents(last.arg, last.arg2)
    /\ set_length(World, last.arg) = 3
    /\ set_length(World, last.ret) = 3

\* a set operation returns in this step
SetOpStep == Result \notin DOMAIN sets /\ last'.op \in SetOps

\* a set_insert returns in this step while a result exists
LaterInsertStep == Result \in DOMAIN sets /\ last'.op = "insert"

\* the nodes of the returned set are cells that did not exist before, linked
\* among themselves only
ResultIndependent ==
    LET N == Nodes(mem', sets'[Result].root)
    IN  /\ N \cap DOMAIN mem = {}
        /\ \A n \in N : {mem'[n].left, mem'[n].right, mem'[n].parent} \subseteq N \cup {NIL}
        /\ {mem'[n].elem : n \in N} \subseteq Payloads(last'.arg) \cup Payloads(last'.arg2)

\* every set but s has its struct and all its nodes as before the step
OthersUnchanged(s) ==
    \A t \in DOMAIN sets \ {s} :
        /\ sets'[t] = sets[t]
        /\ \A n \in Nodes(mem, sets[t].root) : mem'[n] = mem[n]

\* C16: set_union, set_intersection and set_difference leave both input sets
\* unchanged (nodes, links, colors, length), and the result is an independent
\* tree holding the same payload references: a later insert into the result
\* or into an input changes none of the other sets.
C16_InputsUnchangedResultIndependent ==
    /\ [][SetOpStep => /\ \A p \in DOMAIN mem : mem'[p] = mem[p]
                       /\ \A s \in Inputs : sets'[s] = sets[s]
                       /\ ResultIndependent]_vars
    /\ [][LaterInsertStep => OthersUnchanged(last'.arg)]_vars

\* a new element was inserted into a result of two or more elements, with a
\* rotation, while both inputs hold elements
C16_Witness ==
    /\ Result \in DOMAIN sets
    /\ last.op = "insert"
    /\ last.arg = Result
    /\ last.ret = NULL
    /\ last.rots >= 1
    /\ \A s \in Inputs : set_length(World, s) >= 1

\* the tree rooted at r in heap m is a red-black search tree: black root, no
\* red node with a red child, equal black count on all paths, search order
RedBlack(m, r) ==
    /\ m[r].color = BLACK
    /\ r # NIL => m[r].parent = NIL
    /\ \A n \in Nodes(m, r) :
          /\ m[n].color = RED =>
                 m[m[n].left].color = BLACK /\ m[m[n].right].color = BLACK
          /\ \A l \in Nodes(m, m[n].left) : compare_integers(m[l].elem, m[n].elem) < 0
          /\ \A x \in Nodes(m, m[n].right) : compare_integers(m[x].elem, m[n].elem) > 0
    /\ Cardinality(BlackCounts(m, r)) = 1

\* C17: every set returned by set_union, set_intersection or set_difference
\* (the a == b shortcuts included) satisfies the red-black invariants and its
\* length field equals the number of nodes of its tree.
C17_ResultRedBlack ==
    AfterSetOp =>
        /\ RedBlack(mem, sets[last.ret].root)
        /\ set_length(World, last.ret) = Cardinality(Nodes(mem, sets[last.ret].root))

\* a union whose merge rotated at the root of the copy: the copied set has
\* two elements, the other one, and the result's root holds another value
\* than the root of the copied set
C17_Witness ==
    /\ last.op = "union"
    /\ set_length(World, last.arg) = 2
    /\ set_length(World, last.arg2) = 1
    /\ set_length(World, last.ret) = 3
    /\ Deref(mem[sets[last.ret].root].elem) # Deref(mem[sets[last.arg].root].elem)

\* the number of iterators created on set s and not yet destroyed (the
\* program holds at most one iterator)
Live(s) == IF iter # NoIter /\ iter.set = s THEN 1 ELSE 0

\* C18: for every set, whether made by set_create or returned by set_union,
\* set_intersection or set_difference, the active-iterator counter always
\* equals the number of iterators created on that set and not yet destroyed,
\* and set_destroy emits its diagnostic if and only if that number is nonzero.
C18_CounterTracksIterators ==
    /\ \A s \in DOMAIN sets : sets[s].n_iterators = Live(s)
    /\ last.op = "destroy" => (last.flag <=> last.arg2 # NoIter)

\* C19: across every sequence of set operations (insert with rotations and
\* recoloring, the searches of the set operations, union, intersection,
\* difference, iterator creation, stepping and destruction, set_destroy) the
\* sentinel is never written: it stays black and its parent, left, right and
\* elem stay null.
C19_SentinelInert ==
    /\ NIL \in DOMAIN mem
    /\ mem[NIL].color = BLACK
    /\ mem[NIL].parent = NULL
    /\ mem[NIL].left = NULL
    /\ mem[NIL].right = NULL
    /\ mem[NIL].elem = NULL

\* an iterator on a returned set of three elements was destroyed while its
\* threads were installed, after the inputs were built by inserts
C19_Witness ==
    /\ Result \in DOMAIN sets
    /\ set_length(World, Result) = 3
    /\ last.op = "destroyiter"
    /\ last.flag
    /\ \A s \in Inputs : set_length(World, s) >= 2

\* the cells malloc hands out for the nodes of a returned set
ResultCells == {NodeAddr(Result, e) : e \in AlgElems}

\* C20: destroying a set that still has an outstanding iterator, in any state
\* of consumption, is only a diagnostic and not a hard failure: set_destroy
\* still terminates and frees every node of the tree exactly once.
C20_DestroyWithIterator ==
    (last.op = "destroy" /\ last.arg2 # NoIter) =>
        /\ ~hung
        /\ Cardinality({last.ret[i] : i \in 1..Len(last.ret)}) = Len(last.ret)
        /\ DOMAIN mem \cap ResultCells = {}

(* --------------------------- claims on set_destroy --------------------- *)

\* the nodes of the subtree rooted at n, children before parent
RECURSIVE PostOrder(_, _)
PostOrder(m, n) ==
    IF n = NIL THEN << >>
    ELSE PostOrder(m, m[n].left) \o PostOrder(m, m[n].right) \o <<n>>

\* set_destroy returns in this step, called with no iterator outstanding
DestroyStep == Alive /\ iter = NoIter /\ last'.op = "destroy"

\* C21: set_destroy on a set with no outstanding iterator frees each node
\* exactly once in postorder (children before parent), calls the optional
\* element destructor exactly once per stored element, and never frees the
\* sentinel during the recursion.
C21_DestroyPostorder ==
    [][DestroyStep =>
          /\ ~hung'
          /\ ~last'.flag
          /\ last'.ret = PostOrder(mem, Root)
          /\ Len(last'.ret) = Cardinality(Nodes(mem, Root))
          /\ \A i \in 1..Len(last'.ret) :
                 /\ last'.ret[i] # NIL
                 /\ \A c \in {mem[last'.ret[i]].left, mem[last'.ret[i]].right} \ {NIL} :
                        \E j \in 1..(i - 1) : last'.ret[j] = c
          /\ IF last'.elem_freefn
             THEN /\ Len(last'.released) = Len(Expected)
                  /\ {last'.released[i] : i \in 1..Len(last'.released)} =
                         {Expected[i] : i \in 1..Len(Expected)}
             ELSE last'.released = << >>
          /\ DOMAIN mem' = {NIL}
          /\ mem'[NIL] = sentinel]_vars

\* a set of five or more elements was destroyed with a destructor while no
\* iterator was outstanding
C21_Witness ==
    /\ last.op = "destroy"
    /\ last.arg2 = NoIter
    /\ last.elem_freefn
    /\ ~hung
    /\ Len(last.ret) >= 5
    /\ Len(last.released) = Len(last.ret)

(* ------------------------ claims on misuse and failure ----------------- *)

\* set_next returns in this step, called on an exhausted iterator
NextPastEndStep == iter # NoIter /\ set_hasnext(iter) = 0 /\ last'.op = "next"

\* C22: calling next on an iterator after all elements have been iterated
\* over returns NULL, on every such call, and leaves both the iterator (still
\* exhausted) and the tree unchanged.
C22_NextPastEnd ==
    [][NextPastEndStep =>
          /\ last'.ret = NULL
          /\ iter' = iter
          /\ set_hasnext(iter') = 0
          /\ mem' = mem
          /\ sets' = sets
          /\ yielded' = yielded]_vars

\* set_next was called after the loop had received all of three or more
\* elements
C22_Witness ==
    /\ last.op = "next"
    /\ last.arg = 0
    /\ last.ret = NULL
    /\ iter # NoIter
    /\ Len(yielded) >= 3
    /\ Len(yielded) = set_length(World, S)

(* ------------- set operations under allocation failure ----------------- *)

\* The malloc calls of a set operation that completed in world W with the
\* result at c, in the order the code makes them: first the struct set of
\* the result (set_copy, set_create), then one struct tnode for each node of
\* the result (rec_set_copy, node_create under set_insert).
MallocCalls(W, c) == 1 + Cardinality(Nodes(W.mem, W.sets[c].root))

\* The call whose k-th malloc returned NULL.  For the struct, set_copy and
\* set_create return NULL and the operation passes that on.  For a node,
\* rec_set_copy and set_insert reach PANIC: the call does not return.
OomCall(op, a, b, k) ==
    [op |-> op, arg |-> a, arg2 |-> b, ret |-> IF k = 1 THEN NULL ELSE DIVERGES,
     flag |-> k > 1, rots |-> 0, c1 |-> 0, failed |-> k]

\* the state after the k-th malloc of a set operation failed; W is the world
\* the operation would have returned had every malloc succeeded
AllocFails(W, op, a, b, k) ==
    /\ k <= MallocCalls(W, Result)
    /\ last' = OomCall(op, a, b, k)
    /\ hung' = (k > 1)
    /\ UNCHANGED <<mem, sets, iter, yielded, snap, inserted, first, nNull>>

\* set_union(a, b), the k-th malloc fails
UnionOom(a, b, k) ==
    /\ ~hung
    /\ \E g \in Indeterminate : AllocFails(set_union(World, a, b, Result, g), "union", a, b, k)

\* set_intersection(a, b), the k-th malloc fails
IntersectionOom(a, b, k) ==
    /\ ~hung
    /\ \E g \in Indeterminate :
           AllocFails(set_intersection(World, a, b, Result, g), "intersection", a, b, k)

\* set_difference(a, b), the k-th malloc fails
DifferenceOom(a, b, k) ==
    /\ ~hung
    /\ AllocFails(set_difference(World, a, b, Result), "difference", a, b, k)

NextOom ==
    \/ \E s \in Inputs, e \in AlgElems : AlgInsert(s, e)
    \/ \E a \in Inputs, b \in Inputs, k \in 1..(AlgVals + 1) : UnionOom(a, b, k)
    \/ \E a \in Inputs, b \in Inputs, k \in 1..(AlgVals + 1) : IntersectionOom(a, b, k)
    \/ \E a \in Inputs, b \in Inputs, k \in 1..(AlgVals + 1) : DifferenceOom(a, b, k)

SpecOom == InitAlgebra /\ [][NextOom]_vars

\* C23: set_union, set_intersection and set_difference return NULL on
\* failure: whichever malloc of the operation fails, for the result set or
\* for any of its nodes, the call returns NULL to the caller.
C23_NullOnAllocFailure ==
    "failed" \in DOMAIN last => /\ ~hung
                                /\ last.ret = NULL

\* where the claim holds: the malloc of the result's struct set failed
StructFailureReturnsNull ==
    ("failed" \in DOMAIN last /\ last.failed = 1) => (~hung /\ last.ret = NULL)

(* ------------------------------ compare.c ------------------------------ *)

\* the ints handed to compare_ints lie in -CmpRange..CmpRange
CmpRange == 128

\* conversion of an int to int8_t: the value modulo 2^8 in -128..127
int8_t(x) == ((x + 128) % 256) - 128

\* int8_t compare_ints(void *a, void *b), on the ints a and b point to
compare_ints(a, b) == int8_t(a - b)

\* the caller holds two ints a and b and has not compared them yet
InitCompare ==
    /\ mem = (NIL :> sentinel)
    /\ sets = << >>
    /\ iter = NoIter
    /\ yielded = << >>
    /\ snap = (NIL :> sentinel)
    /\ inserted = {}
    /\ first = << >>
    /\ nNull = 0
    /\ hung = FALSE
    /\ \E a \in -CmpRange..CmpRange, b \in -CmpRange..CmpRange :
           last = Call2("ints", a, b, NULL)

\* r = compare_ints(&a, &b)
CompareInts ==
    /\ last.op = "ints"
    /\ last' = Call2("compare_ints", last.arg, last.arg2, compare_ints(last.arg, last.arg2))
    /\ UNCHANGED <<mem, sets, iter, yielded, snap, inserted, first, nNull, hung>>

NextCompare == CompareInts

SpecCompare == InitCompare /\ [][NextCompare]_vars

\* C24: compare_ints honours the comparator contract for all pairs of ints:
\* the int8_t it returns is zero exactly when the two ints are equal,
\* negative exactly when the first is less and positive exactly when the
\* first is greater, which makes it a total order.
C24_CompareIntsContract ==
    last.op = "compare_ints" =>
        /\ last.ret = 0 <=> last.arg = last.arg2
        /\ last.ret < 0 <=> last.arg < last.arg2
        /\ last.ret > 0 <=> last.arg > last.arg2

\* where the contract holds: the difference of the two ints fits int8_t
CompareIntsNear ==
    (last.op = "compare_ints" /\ last.arg - last.arg2 \in -128..127) =>
        /\ last.ret = 0 <=> last.arg = last.arg2
        /\ last.ret < 0 <=> last.arg < last.arg2
        /\ last.ret > 0 <=> last.arg > last.arg2

(* --------------------------- tree_redblack.c --------------------------- *)

\* the ints added to a tree: 1..TreeMax, and one int that is 256 above 1
TreeMax == 5

TreeInts == (1..TreeMax) \cup {1 + 256}

\* the caller's tree_t
T == 1

\* address of the sentinel that tree_create allocates; the node that holds
\* the int v is at address v
TNIL == 0

\* tree_create, lines 35-40: the sentinel
tree_sentinel == [parent |-> NULL, left |-> NULL, right |-> NULL, elem |-> NULL, black |-> 1]

\* tree_t *tree_create(cmpfunc_t cmpfunc), with cmpfunc = compare_ints
tree_create == [root |-> TNIL, NIL |-> TNIL, size |-> 0]

\* unsigned int tree_size(tree_t *tree)
tree_size(W, t) == W.sets[t].size

\* rotate_left / rotate_right, lines 82-86 and 103-107: b takes a's place as
\* the root or under a's parent
tree_rotate_replace(W, t, a, b) ==
    IF a = W.sets[t].root THEN SetRoot(W, t, b)
    ELSE IF W.mem[W.mem[a].parent].left = a
    THEN SetField(W, W.mem[a].parent, "left", b)
    ELSE SetField(W, W.mem[a].parent, "right", b)

\* rotate_left / rotate_right, lines 89-91 and 110-112: the parent pointers
tree_rotate_parents(W, t, a, b, c) ==
    IF c # W.sets[t].NIL
    THEN SetField(SetField(SetField(W, b, "parent", W.mem[a].parent), a, "parent", b),
                  c, "parent", a)
    ELSE SetField(SetField(W, b, "parent", W.mem[a].parent), a, "parent", b)

\* rotate_left with b = a->right and c = a->right->left
tree_rotate_left_at(W, t, a, b, c) ==
    SetField(SetField(tree_rotate_parents(tree_rotate_replace(W, t, a, b), t, a, b, c),
                      a, "right", c),
             b, "left", a)

\* static void rotate_left(tree_t *tree, treenode_t *a)
tree_rotate_left(W, t, a) ==
    tree_rotate_left_at(W, t, a, W.mem[a].right, W.mem[W.mem[a].right].left)

\* rotate_right with b = a->left and c = a->left->right
tree_rotate_right_at(W, t, a, b, c) ==
    SetField(SetField(tree_rotate_parents(tree_rotate_replace(W, t, a, b), t, a, b, c),
                      a, "left", c),
             b, "right", a)

\* static void rotate_right(tree_t *tree, treenode_t *a)
tree_rotate_right(W, t, a) ==
    tree_rotate_right_at(W, t, a, W.mem[a].left, W.mem[W.mem[a].left].right)

\* int8_t tree_contains(tree_t *tree, void *elem)
RECURSIVE tree_contains_loop(_, _, _, _)
tree_contains_loop(W, t, elem, curr) ==
    IF curr = W.sets[t].NIL THEN 0
    ELSE LET direction == compare_ints(elem, W.mem[curr].elem)
         IN  IF direction > 0 THEN tree_contains_loop(W, t, elem, W.mem[curr].right)
             ELSE IF direction < 0 THEN tree_contains_loop(W, t, elem, W.mem[curr].left)
             ELSE 1

tree_contains(W, t, elem) == tree_contains_loop(W, t, elem, W.sets[t].root)

\* the node that malloc returns at address a, with its fields assigned
newNode(W, t, a, elem, black, parent) ==
    [W EXCEPT !.mem = a :> [parent |-> parent, left |-> W.sets[t].NIL,
                            right |-> W.sets[t].NIL, elem |-> elem, black |-> black] @@ @]

\* static treenode_t *node_add(tree_t *tree, void *elem)   (malloc succeeds)
\* result: the world and the returned node
RECURSIVE node_add_loop(_, _, _, _)
node_add_loop(W, t, elem, curr) ==
    LET direction == compare_ints(elem, W.mem[curr].elem)
    IN  IF direction = 0 THEN [W |-> W, node |-> NULL]
        ELSE IF direction > 0 THEN
            IF W.mem[curr].right = W.sets[t].NIL
            THEN [W |-> SetField(newNode(W, t, elem, elem, 0, curr), curr, "right", elem),
                  node |-> elem]
            ELSE node_add_loop(W, t, elem, W.mem[curr].right)
        ELSE
            IF W.mem[curr].left = W.sets[t].NIL
            THEN [W |-> SetField(newNode(W, t, elem, elem, 0, curr), curr, "left", elem),
                  node |-> elem]
            ELSE node_add_loop(W, t, elem, W.mem[curr].left)

node_add(W, t, elem) == node_add_loop(W, t, elem, W.sets[t].root)

\* tree_add, lines 207-213: the tree has no root yet
tree_add_root(W, t, elem) ==
    [SetRoot(newNode(W, t, elem, elem, 1, W.sets[t].NIL), t, elem) EXCEPT !.sets[t].size = 1]

\* the state of the balancing loop of tree_add: the world, curr, the
\* rotations made, the red-uncle steps, curr / par / gp of the steps that
\* rotated the parent, and the iterations left before the loop is given up
TreeBalanceState(W, curr) ==
    [W |-> W, curr |-> curr, rots |-> 0, c1 |-> 0, inner |-> << >>,
     fuel |-> 2 * Cardinality(DOMAIN W.mem), diverged |-> FALSE]

\* tree_add, lines 231-236: the uncle is red
tree_add_recolor(W, t, par, unc, gp) ==
    IF gp # W.sets[t].root
    THEN SetField(SetField(SetField(W, par, "black", 1), unc, "black", 1), gp, "black", 0)
    ELSE SetField(SetField(W, par, "black", 1), unc, "black", 1)

\* tree_add, lines 249-250, after the rotation of the grandparent
tree_add_colors(W, t, par, gp) ==
    IF gp # W.sets[t].root
    THEN SetField(SetField(W, par, "black", 1), gp, "black", 0)
    ELSE SetField(W, par, "black", 1)

\* tree_add, lines 237-252: the uncle is black
tree_add_rotate(B, t, par, gp, par_is_leftchild, curr_is_leftchild) ==
    IF par_is_leftchild # curr_is_leftchild
    THEN [B EXCEPT !.W = IF curr_is_leftchild THEN tree_rotate_right(@, t, par)
                         ELSE tree_rotate_left(@, t, par),
                   !.rots = @ + 1,
                   !.inner = Append(@, <<B.curr, par, gp>>)]
    ELSE [B EXCEPT !.W = tree_add_colors(IF curr_is_leftchild THEN tree_rotate_right(@, t, gp)
                                         ELSE tree_rotate_left(@, t, gp), t, par, gp),
                   !.rots = @ + 1]

\* one iteration of the loop at lines 223-253, with par, gp and unc
tree_add_step(B, t, par, gp, unc) ==
    IF B.W.mem[unc].black = 0
    THEN [B EXCEPT !.W = tree_add_recolor(@, t, par, unc, gp), !.curr = gp, !.c1 = @ + 1]
    ELSE tree_add_rotate(B, t, par, gp, B.W.mem[gp].left = par, B.W.mem[par].left = B.curr)

\* tree_add, line 227: the uncle
tree_add_uncle(W, par, gp) == IF W.mem[gp].left = par THEN W.mem[gp].right ELSE W.mem[gp].left

\* while (!(curr->parent->black))
RECURSIVE tree_add_loop(_, _)
tree_add_loop(B, t) ==
    IF B.W.mem[B.W.mem[B.curr].parent].black # 0 THEN B
    ELSE IF B.fuel = 0 THEN [B EXCEPT !.diverged = TRUE]
    ELSE tree_add_loop(
             [tree_add_step(B, t, B.W.mem[B.curr].parent,
                            B.W.mem[B.W.mem[B.curr].parent].parent,
                            tree_add_uncle(B.W, B.W.mem[B.curr].parent,
                                           B.W.mem[B.W.mem[B.curr].parent].parent))
                 EXCEPT !.fuel = @ - 1], t)

\* tree_add, lines 216-218, with A the result of node_add
tree_add_node(A, t) ==
    IF A.node = NULL THEN TreeBalanceState(A.W, NULL)
    ELSE tree_add_loop(TreeBalanceState([A.W EXCEPT !.sets[t].size = @ + 1], A.node), t)

\* void tree_add(tree_t *T, void *elem)
tree_add(W, t, elem) ==
    IF W.sets[t].size = 0 THEN TreeBalanceState(tree_add_root(W, t, elem), elem)
    ELSE tree_add_node(node_add(W, t, elem), t)

(* ---------------------- the program of a tree -------------------------- *)

InitTree ==
    /\ mem = (TNIL :> tree_sentinel)
    /\ sets = (T :> tree_create)
    /\ iter = NoIter
    /\ yielded = << >>
    /\ snap = (TNIL :> tree_sentinel)
    /\ inserted = {}
    /\ first = << >>
    /\ nNull = 0
    /\ last = Call("tree_create", NULL, T)
    /\ hung = FALSE

\* what a tree_add call did
TreeAddCall(elem, B) ==
    [op |-> "tree_add", arg |-> elem, ret |-> NULL, flag |-> B.diverged,
     rots |-> B.rots, c1 |-> B.c1, inner |-> B.inner, node |-> B.curr]

\* the state after tree_add ended with the loop state B
TreeAdded(B, elem) ==
    /\ mem' = B.W.mem
    /\ sets' = B.W.sets
    /\ inserted' = inserted \cup {elem}
    /\ last' = TreeAddCall(elem, B)
    /\ hung' = B.diverged
    /\ UNCHANGED <<iter, yielded, snap, first, nNull>>

\* tree_add(tree, &e)
TreeAdd(elem) ==
    /\ ~hung
    /\ TreeAdded(tree_add(World, T, elem), elem)

\* r = tree_contains(tree, &e)
TreeContains(elem) ==
    /\ ~hung
    /\ last' = Call("tree_contains", elem, tree_contains(World, T, elem))
    /\ UNCHANGED <<mem, sets, iter, yielded, snap, inserted, first, nNull, hung>>

\* n = tree_size(tree)
TreeSize ==
    /\ ~hung
    /\ last' = Call("tree_size", T, tree_size(World, T))
    /\ UNCHANGED <<mem, sets, iter, yielded, snap, inserted, first, nNull, hung>>

NextTree ==
    \/ \E e \in TreeInts : TreeAdd(e)
    \/ \E e \in TreeInts : TreeContains(e)
    \/ TreeSize

SpecTree == InitTree /\ [][NextTree]_vars

(* ------------------------- claims on the tree -------------------------- *)

\* the nodes of the subtree at n
RECURSIVE TreeNodes(_, _)
TreeNodes(m, n) ==
    IF n = TNIL THEN {} ELSE {n} \cup TreeNodes(m, m[n].left) \cup TreeNodes(m, m[n].right)

\* the numbers of black nodes met on the paths from n down to the sentinel
RECURSIVE TreeBlackCounts(_, _)
TreeBlackCounts(m, n) ==
    IF n = TNIL THEN {0}
    ELSE {k + m[n].black : k \in TreeBlackCounts(m, m[n].left) \cup TreeBlackCounts(m, m[n].right)}

\* a red node with a red child
RedRed(m, n) ==
    /\ m[n].black = 0
    /\ \/ m[n].left # TNIL /\ m[m[n].left].black = 0
       \/ m[n].right # TNIL /\ m[m[n].right].black = 0

\* C25: after every tree_add call on a tree made by tree_create, whatever
\* the order of the insertions, no red node has a red child and every path
\* from the root to NIL has the same number of black nodes.
C25_TreeAddRedBlack ==
    last.op = "tree_add" =>
        /\ \A n \in TreeNodes(mem, sets[T].root) : ~RedRed(mem, n)
        /\ Cardinality(TreeBlackCounts(mem, sets[T].root)) = 1

\* what tree_contains and tree_size are to return, given the ints added
TreeAnswers ==
    /\ last.op = "tree_contains" => last.ret = IF last.arg \in inserted THEN 1 ELSE 0
    /\ last.op = "tree_size" => last.ret = Cardinality(inserted)

\* C26: after any sequence of tree_add calls, tree_contains(tree, e) returns
\* 1 if an int equal to e was added and 0 otherwise, and tree_size is the
\* number of distinct ints added.
C26_TreeContainsAndSize == last.op \in {"tree_contains", "tree_size"} => TreeAnswers

\* where the claim holds: every int added or asked for is in 1..TreeMax, so
\* every difference compare_ints forms fits int8_t
TreeAnswersNear ==
    (inserted \cup {last.arg} \subseteq (1..TreeMax) \cup {NULL, T}) => TreeAnswers

\* the first step of the last tree_add that found a black uncle and curr an
\* inner grandchild: <<curr, par, gp>> as they were when it began
InnerStep == last.inner[1]

\* C27: when the uncle is black and the current node is an inner grandchild,
\* the parent is rotated toward current's side and the same insertion goes on
\* to rotate and recolor the grandparent, so it ends with the inserted node
\* black above the former parent and the former grandparent, both red.
C27_Case2FallsThrough ==
    (last.op = "tree_add" /\ last.inner # << >>) =>
        /\ last.rots = 2
        /\ last.c1 = 0 => InnerStep[1] = last.arg
        /\ mem[InnerStep[1]].black = 1
        /\ {mem[InnerStep[1]].left, mem[InnerStep[1]].right} = {InnerStep[2], InnerStep[3]}
        /\ mem[InnerStep[2]].black = 0
        /\ mem[InnerStep[3]].black = 0

\* the same for post_insert_balance of common.h, where two rotations in one
\* set_insert are the rotation of the parent followed by that of the
\* grandparent: some node is black above two red children, and it is the
\* inserted node when no red-uncle step came first
SetCase2FallsThrough ==
    (last.op = "insert" /\ last.rots = 2) =>
        \E n \in Nodes(mem, Root) :
            /\ last.c1 = 0 => n = NodeAddr(S, last.arg)
            /\ mem[n].color = BLACK
            /\ mem[n].left # NIL /\ mem[mem[n].left].color = RED
            /\ mem[n].right # NIL /\ mem[mem[n].right].color = RED

(* ------------------ claims on balancing and rotation ------------------- *)

\* the number of nodes node_insert passes on its way to the place of a new
\* element: the depth of the new node, with the root at depth 0
RECURSIVE SearchDepth(_, _, _)
SearchDepth(m, n, elem) ==
    IF n = NIL THEN 0
    ELSE 1 + SearchDepth(m, IF compare_integers(elem, m[n].elem) > 0 THEN m[n].right
                            ELSE m[n].left, elem)

\* set_insert returns in this step and has added a node
NewNodeStep == last'.op = "insert" /\ Deref(last'.arg) \notin inserted

\* C28: the balancing loop ends for every insertion (the call returns): a
\* red-uncle step moves curr two levels toward the root and a rotation step
\* needs a grandparent and is the last one, so twice the red-uncle steps, plus
\* two if the loop rotated, is at most the depth of the new node; and one
\* set_insert makes at most two rotations.
C28_BalanceTerminates ==
    [][NewNodeStep =>
          /\ ~hung'
          /\ last'.rots <= 2
          /\ 2 * last'.c1 + (IF last'.rots > 0 THEN 2 ELSE 0) <= SearchDepth(mem, Root, last'.arg)]_vars

\* a set_insert into a set of four or more elements has returned that
\* rotated the parent and then the grandparent
C28_Witness ==
    /\ last.op = "insert"
    /\ last.rots = 2
    /\ last.c1 = 0
    /\ set_length(World, S) >= 5

(* --------------------- rotations on their own -------------------------- *)

\* the trees handed to the rotations hold ints of 1..RotVals
RotVals == 5

\* post_insert_balance and tree_add call the rotations at most twice in a
\* row (the parent, then the grandparent)
MaxRotations == 2

RotateOps == {"rotate_left", "rotate_right"}

\* the program uses a tree of tree_redblack.c, not a set of common.h
IsTree == "size" \in DOMAIN sets[T]

\* the rotations called in a row so far
RotationsMade == IF last.op \in RotateOps THEN last.rots ELSE 0

\* the program makes either a set or a tree
InitRotate == Init \/ InitTree

\* the state after a rotation of u returned the world W
Rotated(W, op, u) ==
    /\ mem' = W.mem
    /\ sets' = W.sets
    /\ last' = [Call(op, u, NULL) EXCEPT !.rots = RotationsMade + 1]
    /\ UNCHANGED <<iter, yielded, snap, inserted, first, nNull, hung>>

\* rotate_left(set, u) or rotate_left(tree, u), with u->right not the sentinel
RotateLeft(u) ==
    /\ RotationsMade < MaxRotations
    /\ mem[u].right \notin {NIL, NULL}
    /\ Rotated(IF IsTree THEN tree_rotate_left(World, T, u) ELSE rotate_left(World, S, u),
               "rotate_left", u)

\* rotate_right(set, u) or rotate_right(tree, u), with u->left not the sentinel
RotateRight(u) ==
    /\ RotationsMade < MaxRotations
    /\ mem[u].left \notin {NIL, NULL}
    /\ Rotated(IF IsTree THEN tree_rotate_right(World, T, u) ELSE rotate_right(World, S, u),
               "rotate_right", u)

NextRotate ==
    \/ \E e \in 1..RotVals : RotationsMade = 0 /\ ~IsTree /\ Insert(e)
    \/ \E e \in 1..RotVals : RotationsMade = 0 /\ IsTree /\ TreeAdd(e)
    \/ \E u \in DOMAIN mem : RotateLeft(u)
    \/ \E u \in DOMAIN mem : RotateRight(u)

SpecRotate == InitRotate /\ [][NextRotate]_vars

\* a cell without its three links: its element and its color
Payload(cell) == [cell EXCEPT !.parent = NULL, !.left = NULL, !.right = NULL]

\* a rotation of u returns in this step
RotateStep == last'.op \in RotateOps /\ last' # last

\* the promoted child of u in a rotation op
Promoted(m, op, u) == IF op = "rotate_left" THEN m[u].right ELSE m[u].left

\* the root of the subtree that moves from the promoted child to u
Migrated(m, op, u) ==
    IF op = "rotate_left" THEN m[m[u].right].left ELSE m[m[u].left].right

\* C29: rotate_left(u) and rotate_right(u), called with the required child
\* not the sentinel, keep the in-order sequence of the whole tree and every
\* node's element and color; no cell is added or freed; the only cells that
\* change are u, its promoted child v, the root of the migrated subtree and
\* u's former parent, never the sentinel; the root pointer changes only when
\* u was the root, and then to v.
C29_RotationFrame ==
    [][RotateStep =>
          /\ InOrder(mem', sets'[S].root) = InOrder(mem, sets[S].root)
          /\ DOMAIN mem' = DOMAIN mem
          /\ \A n \in DOMAIN mem : Payload(mem'[n]) = Payload(mem[n])
          /\ \A n \in DOMAIN mem \ ({last'.arg, Promoted(mem, last'.op, last'.arg),
                                     Migrated(mem, last'.op, last'.arg),
                                     mem[last'.arg].parent} \ {NIL}) : mem'[n] = mem[n]
          /\ sets'[S].root = IF sets[S].root = last'.arg
                             THEN Promoted(mem, last'.op, last'.arg) ELSE sets[S].root
          /\ [sets'[S] EXCEPT !.root = NIL] = [sets[S] EXCEPT !.root = NIL]
          /\ mem'[last'.arg].parent = Promoted(mem, last'.op, last'.arg)
          /\ mem'[Promoted(mem, last'.op, last'.arg)].parent = mem[last'.arg].parent]_vars

\* rotate_left(u) has returned for a u that was not the root and whose right
\* child had a left subtree, which is now u's right subtree
C29_Witness ==
    /\ last.op = "rotate_left"
    /\ mem[last.arg].right # NIL
    /\ mem[mem[last.arg].right].parent = last.arg
    /\ mem[mem[last.arg].parent].parent # NIL
    /\ mem[mem[mem[last.arg].parent].parent].left = mem[last.arg].parent

(* ------------------------ claims on parent links ----------------------- *)

\* in the tree at r the root's parent is the sentinel and every child that is
\* not the sentinel has the node it hangs under as its parent
ParentLinks(m, r) ==
    /\ r # NIL => m[r].parent = NIL
    /\ \A n \in Nodes(m, r) :
          /\ m[n].left # NIL => m[m[n].left].parent = n
          /\ m[n].right # NIL => m[m[n].right].parent = n

\* C30: after every completed set_insert, set_union, set_intersection and
\* set_difference the parent links agree with the child links in every
\* tree, inputs and result alike.
C30_ParentLinksConsistent ==
    last.op \in SetOps \cup {"insert"} =>
        \A s \in DOMAIN sets : ParentLinks(mem, sets[s].root)

\* set_union of two different non-empty sets has returned a tree of three
\* nodes, a root with two children
C30_Witness ==
    /\ last.op = "union"
    /\ last.arg # last.arg2
    /\ sets[last.arg].length > 0
    /\ sets[last.arg2].length > 0
    /\ sets[Result].length = 3
    /\ mem[sets[Result].root].left # NIL
    /\ mem[sets[Result].root].right # NIL

(* ------------- claims on the lead input of a set operation ------------- *)

\* the argument of the last union that has more elements, the first when
\* they have equally many
Larger == IF set_length(World, last.arg) < set_length(World, last.arg2)
          THEN last.arg2 ELSE last.arg

\* the argument of the last call that is not X
Other(X) == IF X = last.arg THEN last.arg2 ELSE last.arg

C32_IntersectionPayloadsOfSmaller ==
    (last.op = "intersection" /\ set_length(World, last.arg) # set_length(World, last.arg2)) =>
        Payloads(last.ret) \subseteq Payloads(Other(Larger))

\* C32 amended: set_intersection(a, b) walks the input with more elements (a
\* when the lengths are equal) and searches the other one: the result holds
\* exactly the payloads of the larger input whose value the other input
\* holds too, and no payload of the smaller input.
C32_IntersectionPayloadsOfLarger ==
    last.op = "intersection" =>
        Payloads(last.ret) =
            {e \in Payloads(Larger) : Deref(e) \in Vals(Payloads(Other(Larger)))}

\* an intersection whose first argument is the shorter set, two elements
\* against three, with a result of two payloads, neither of the shorter set
C32_Witness ==
    /\ last.op = "intersection"
    /\ set_length(World, last.arg) = 2
    /\ set_length(World, last.arg2) = 3
    /\ set_length(World, last.ret) = 2
    /\ Payloads(last.ret) \cap Payloads(last.arg) = {}

(* ---------------- claims on set_get during an iteration ---------------- *)

\* the iterator is partially consumed: it has yielded and has more to yield
PartlyConsumed == iter # NoIter /\ yielded # << >> /\ set_hasnext(iter) = 1

\* C33: while an iterator over a set is partially consumed, with its
\* temporary threads in the tree, set_get on that set for any element the
\* iterator has already yielded returns that same stored element.
C33_GetYieldedDuringIteration ==
    PartlyConsumed =>
        \A i \in 1..Len(yielded) : set_get(World, S, yielded[i]) = yielded[i]

\* set_get has returned an element already yielded while the iterator was
\* partially consumed and a thread was installed in the tree
C33_Witness ==
    /\ PartlyConsumed
    /\ mem # snap
    /\ last.op = "get"
    /\ Len(yielded) >= 2
    /\ last.arg = yielded[1]
    /\ last.ret = yielded[1]

\* C34: set_get terminates and returns in every reachable state of a set,
\* for every query element, also for an element that is not in the set
\* while an iterator on that set is partially consumed.
C34_GetTerminates == last.op = "get" => (~hung /\ last.ret # DIVERGES)

\* where the claim holds: no iterator is live, or the element asked for has
\* been yielded
GetTerminatesUnthreaded ==
    \A e \in Elems :
        (iter = NoIter \/ \E i \in 1..Len(yielded) : yielded[i] = e) =>
            set_get(World, S, e) # DIVERGES

(* ------------------- two iterators on the same set -------------------- *)

\* values inserted before the two iterators are created
TwoVals == 5

\* the caller's two iterator handles
Iters == 1..2

NoIters == <<NoIter, NoIter>>

\* what the caller remembers of an iterator: the element it got last and
\* whether set_next has handed it an element not above the one before
NoYield == [prev |-> NULL, again |-> FALSE]

InitTwo ==
    /\ mem = (NIL :> sentinel)
    /\ sets = (S :> set_create)
    /\ iter = NoIters
    /\ yielded = <<NoYield, NoYield>>
    /\ snap = (NIL :> sentinel)
    /\ inserted = {}
    /\ first = << >>
    /\ nNull = 0
    /\ last = Call("create", NULL, NULL)
    /\ hung = FALSE

\* set_insert(S, e) while the set is built; the set is not modified once an
\* iterator has been created on it
TwoInsert(e) ==
    /\ last.op \in {"create", "insert"}
    /\ Inserted(set_insert(World, S, e), e)
    /\ inserted' = inserted \cup {Deref(e)}
    /\ UNCHANGED <<iter, yielded, snap, first, hung>>

\* set_createiter(S) for handle i, also while the other handle is live (the
\* function warns and goes on); snap keeps the links the tree had when the
\* first of the two was created
TwoCreateIter(i) ==
    /\ iter[i] = NoIter
    /\ LET R == set_createiter(World, S)
       IN  /\ mem' = R.W.mem
           /\ sets' = R.W.sets
           /\ iter' = [iter EXCEPT ![i] = R.iter]
    /\ yielded' = IF iter = NoIters THEN <<NoYield, NoYield>> ELSE yielded
    /\ snap' = IF iter = NoIters THEN mem ELSE snap
    /\ last' = [Call("createiter", i, NULL) EXCEPT !.flag = (sets[S].n_iterators # 0)]
    /\ UNCHANGED <<inserted, first, nNull, hung>>

\* set_next(iter[i]), in any order with the calls of the other handle
TwoNext(i) ==
    /\ iter[i] # NoIter
    /\ LET R == set_next(World, iter[i])
       IN  /\ mem' = R.W.mem
           /\ sets' = R.W.sets
           /\ iter' = [iter EXCEPT ![i] = R.iter]
           /\ yielded' = [yielded EXCEPT ![i] =
                  IF R.ret = NULL THEN @
                  ELSE [prev  |-> R.ret,
                        again |-> @.again \/ (@.prev # NULL /\ Deref(R.ret) <= Deref(@.prev))]]
           /\ last' = [Call("next", i, R.ret) EXCEPT !.flag = (R.W.mem # snap)]
    /\ UNCHANGED <<snap, inserted, first, nNull, hung>>

\* set_destroyiter(iter[i])
TwoDestroyIter(i) ==
    /\ iter[i] # NoIter
    /\ LET W1 == set_destroyiter(World, iter[i])
       IN  /\ mem' = W1.mem
           /\ sets' = W1.sets
    /\ iter' = [iter EXCEPT ![i] = NoIter]
    /\ last' = [Call("destroyiter", i, NULL) EXCEPT !.flag = (mem # snap)]
    /\ UNCHANGED <<yielded, snap, inserted, first, nNull, hung>>

NextTwo ==
    \/ \E e \in 1..TwoVals : TwoInsert(e)
    \/ \E i \in Iters : TwoCreateIter(i)
    \/ \E i \in Iters : TwoNext(i)
    \/ \E i \in Iters : TwoDestroyIter(i)

SpecTwo == InitTwo /\ [][NextTwo]_vars

\* C35: with two iterators on the same unmodified set and their set_next
\* calls interleaved in any order, every set_next and set_destroyiter call
\* terminates (from every state the traversal of a live iterator can be
\* finished, which is what set_destroyiter does, set_next by set_next), and
\* once both iterators are destroyed the links of the tree are those before
\* the iterators were created and the iterator counter is 0.
C35_TwoIteratorsLeaveNoTrace ==
    /\ \A i \in Iters : iter[i] # NoIter => drain(World, iter[i]).iter.node = NIL
    /\ (iter = NoIters /\ last.op = "destroyiter") =>
           (mem = snap /\ sets[S].n_iterators = 0)

\* both iterators are destroyed, the second while a thread was in the tree,
\* after interleaved set_next calls that handed an element of a set of four
\* or more to one of them a second time
C35_Witness ==
    /\ iter = NoIters
    /\ last.op = "destroyiter"
    /\ last.flag
    /\ set_length(World, S) >= 4
    /\ \E i \in Iters : yielded[i].again
    /\ \A i \in Iters : yielded[i].prev # NULL

(* ------------------- tree_redblack.c: the iterator -------------------- *)

\* the inner loop of next_node_inorder: from pre to the right until NIL or curr
RECURSIVE tree_predecessor(_, _, _)
tree_predecessor(W, curr, pre) ==
    IF W.mem[pre].right # TNIL /\ W.mem[pre].right # curr
    THEN tree_predecessor(W, curr, W.mem[pre].right)
    ELSE pre

\* the loop while (ret == NIL) of next_node_inorder
RECURSIVE tree_inorder_loop(_, _)
tree_inorder_loop(W, curr) ==
    LET R == IF W.mem[curr].left = TNIL
             THEN [W |-> W, curr |-> W.mem[curr].right, ret |-> curr]
             ELSE LET pre == tree_predecessor(W, curr, W.mem[curr].left)
                  IN  IF W.mem[pre].right = TNIL
                      THEN [W    |-> SetField(W, pre, "right", curr),
                            curr |-> W.mem[curr].left, ret |-> TNIL]
                      ELSE [W    |-> SetField(W, pre, "right", TNIL),
                            curr |-> W.mem[curr].right, ret |-> curr]
    IN  IF R.ret = TNIL THEN tree_inorder_loop(R.W, R.curr) ELSE R

\* static treenode_t *next_node_inorder(tree_iter_t *iter)
\* result: the world, the iterator and the returned node
tree_next_node_inorder(W, it) ==
    IF it.node = W.sets[it.tree].NIL THEN [W |-> W, iter |-> it, ret |-> W.sets[it.tree].NIL]
    ELSE LET R == tree_inorder_loop(W, it.node)
         IN  [W |-> R.W, iter |-> [it EXCEPT !.node = R.curr], ret |-> R.ret]

\* tree_iter_t *tree_createiter(tree_t *tree, int inOrder)   (malloc succeeds)
\* nxtfunc is next_node_inorder in every iterator that is returned; with
\* inOrder == 0 the call returns NULL (ret) and the caller has no iterator
tree_createiter(W, t, inOrder) ==
    IF inOrder # 0 THEN [ret |-> t, iter |-> [tree |-> t, node |-> W.sets[t].root]]
    ELSE [ret |-> NULL, iter |-> NoIter]

\* the loop of tree_resetiter: next_node_inorder until it returns NIL
RECURSIVE tree_resetiter_loop(_, _)
tree_resetiter_loop(W, it) ==
    LET R == tree_next_node_inorder(W, it)
    IN  IF R.ret # W.sets[it.tree].NIL THEN tree_resetiter_loop(R.W, R.iter)
        ELSE [W |-> R.W, iter |-> R.iter]

\* a reset that goes back to the root without finishing the traversal
tree_resetiter_unfinished(W, it) ==
    [W |-> W, iter |-> [it EXCEPT !.node = W.sets[it.tree].root]]

\* void tree_resetiter(tree_iter_t *iter)
tree_resetiter(W, it) ==
    LET D == IF it.node # W.sets[it.tree].NIL
             THEN tree_resetiter_loop(W, it)
             ELSE [W |-> W, iter |-> it]
    IN  [W |-> D.W, iter |-> [D.iter EXCEPT !.node = D.W.sets[it.tree].root]]

\* void tree_destroyiter(tree_iter_t *iter): the world after the reset and
\* the free
tree_destroyiter(W, it) == tree_resetiter(W, it).W

\* void *tree_next(tree_iter_t *iter)
tree_next(W, it) ==
    LET R == tree_next_node_inorder(W, it)
    IN  [W |-> R.W, iter |-> R.iter, ret |-> R.W.mem[R.ret].elem]

\* how often the caller resets one iterator
MaxResets == 1

\* iter = tree_createiter(tree, inOrder), on a tree that holds no iterator;
\* snap keeps the links of the tree, yielded what tree_next hands out from
\* the root on, first the numbers of elements handed out before each reset
TreeCreateIter(inOrder) ==
    /\ ~hung
    /\ iter = NoIter
    /\ LET R == tree_createiter(World, T, inOrder)
       IN  /\ iter' = R.iter
           /\ last' = Call2("tree_createiter", T, inOrder, R.ret)
    /\ yielded' = << >>
    /\ first' = << >>
    /\ snap' = mem
    /\ UNCHANGED <<mem, sets, inserted, nNull, hung>>

\* e = tree_next(iter); the caller keeps what is not NULL
TreeNext ==
    /\ ~hung
    /\ iter # NoIter
    /\ LET R == tree_next(World, iter)
       IN  /\ mem' = R.W.mem
           /\ sets' = R.W.sets
           /\ iter' = R.iter
           /\ yielded' = IF R.ret = NULL THEN yielded ELSE Append(yielded, R.ret)
           /\ last' = [Call("tree_next", Len(yielded), R.ret) EXCEPT !.flag = (mem # snap)]
    /\ UNCHANGED <<snap, inserted, first, nNull, hung>>

\* tree_resetiter(iter)
TreeResetIter ==
    /\ ~hung
    /\ iter # NoIter
    /\ Len(first) < MaxResets
    /\ LET R == tree_resetiter(World, iter)
       IN  /\ mem' = R.W.mem
           /\ sets' = R.W.sets
           /\ iter' = R.iter
    /\ yielded' = << >>
    /\ first' = Append(first, Len(yielded))
    /\ last' = [Call("tree_resetiter", Len(yielded), NULL) EXCEPT !.flag = (mem # snap)]
    /\ UNCHANGED <<snap, inserted, nNull, hung>>

\* tree_destroyiter(iter)
TreeDestroyIter ==
    /\ ~hung
    /\ iter # NoIter
    /\ LET W1 == tree_destroyiter(World, iter)
       IN  /\ mem' = W1.mem
           /\ sets' = W1.sets
    /\ iter' = NoIter
    /\ last' = [Call("tree_destroyiter", Len(yielded), NULL) EXCEPT !.flag = (mem # snap)]
    /\ UNCHANGED <<yielded, snap, inserted, first, nNull, hung>>

\* the tree is built from ints whose differences fit int8_t and is not
\* altered once an iterator has been created on it
NextTreeIter ==
    \/ \E e \in 1..TreeMax : last.op \in {"tree_create", "tree_add"} /\ TreeAdd(e)
    \/ \E inOrder \in {0, 1} : TreeCreateIter(inOrder)
    \/ TreeNext
    \/ TreeResetIter
    \/ TreeDestroyIter

SpecTreeIter == InitTree /\ [][NextTreeIter]_vars

(* ---------------------- claims on tree_resetiter ----------------------- *)

\* C36: tree_resetiter, called before the first tree_next, mid-way or after
\* exhaustion, finishes the pending traversal and resets the iterator to the
\* root: when it returns no temporary link is in the tree, and the tree_next
\* calls that follow hand out the elements of the tree in ascending order
\* from the smallest one, all of them before the first NULL.
C36_ResetRestartsTraversal ==
    (iter # NoIter /\ first # << >>) =>
        /\ last.op = "tree_resetiter" => (mem = snap /\ iter.node = sets[T].root)
        /\ yielded = SubSeq(Ascending(inserted), 1, Len(yielded))
        /\ (last.op = "tree_next" /\ last.ret = NULL) =>
               (yielded = Ascending(inserted) /\ mem = snap)

\* tree_resetiter was called mid-way with a temporary link in the tree,
\* after two of at least four elements, and the tree_next calls after it
\* have handed out all elements and then NULL
C36_Witness ==
    /\ iter # NoIter
    /\ first = <<2>>
    /\ Len(yielded) >= 4
    /\ yielded = Ascending(inserted)
    /\ last.op = "tree_next"
    /\ last.ret = NULL
    /\ mem = snap

\* tree_resetiter returns with the links of the tree restored from each of
\* the three points: before the first tree_next, mid-way with a temporary
\* link, after exhaustion
ResetPoints ==
    (last.op = "tree_resetiter" /\ inserted # {}) =>
        /\ mem = snap
        /\ last.arg \in 0..Cardinality(inserted)

(* ----------------------- tree_test.c: tree_remove ---------------------- *)

\* static treenode_t *node_contains(tree_t *tree, void *elem)
RECURSIVE node_contains(_, _, _, _)
node_contains(W, t, elem, curr) ==
    IF curr = W.sets[t].NIL THEN NULL
    ELSE LET direction == compare_ints(elem, W.mem[curr].elem)
         IN  IF direction > 0 THEN node_contains(W, t, elem, W.mem[curr].right)
             ELSE IF direction < 0 THEN node_contains(W, t, elem, W.mem[curr].left)
             ELSE curr

\* node_replace: v takes the place of node, as the root or under par; rel
\* holds par, node_is_root and node_is_leftchild
node_replace_link(W, t, rel, v) ==
    IF rel.root THEN SetRoot(W, t, v)
    ELSE IF rel.left THEN SetField(W, rel.par, "left", v)
    ELSE SetField(W, rel.par, "right", v)

\* node_replace, lines 519-547: node does not have two children; child is
\* its only child, or NIL
node_replace_child(W, t, node, rel, child) ==
    IF child = W.sets[t].NIL THEN node_replace_link(W, t, rel, child)
    ELSE SetField(node_replace_link(W, t, rel, child), child, "parent", rel.par)

\* node_replace, lines 551-553: the left-most node from curr down
RECURSIVE tree_leftmost(_, _, _)
tree_leftmost(W, t, curr) ==
    IF W.mem[curr].left # W.sets[t].NIL THEN tree_leftmost(W, t, W.mem[curr].left) ELSE curr

\* node_replace, lines 556-559: a successor that is not the right child of
\* node is cut from its parent and gets the right child of node
node_replace_cut(W, t, node, curr) ==
    IF W.mem[node].right # curr
    THEN SetField(SetField(W, W.mem[curr].parent, "left", W.sets[t].NIL),
                  curr, "right", W.mem[node].right)
    ELSE W

\* node_replace, lines 565-575: curr is linked in the place of node and
\* inherits its relations; the cell of node itself is not written
node_replace_inherit(W, t, node, rel, curr) ==
    LET W1 == SetField(SetField(node_replace_link(W, t, rel, curr),
                                curr, "parent", W.mem[node].parent),
                       curr, "left", W.mem[node].left)
    IN  SetField(SetField(W1, W.mem[node].left, "parent", curr),
                 W.mem[curr].right, "parent", curr)

\* static treenode_t *node_replace(tree_t *tree, treenode_t *node)
\* result: the world and the returned node
node_replace(W, t, node) ==
    LET NIL_ == W.sets[t].NIL
        rel == [par  |-> W.mem[node].parent,
                root |-> node = W.sets[t].root,
                left |-> node # W.sets[t].root /\ W.mem[W.mem[node].parent].left = node]
        W1 == IF W.mem[node].left = NIL_
              THEN node_replace_child(W, t, node, rel, W.mem[node].right)
              ELSE IF W.mem[node].right = NIL_
              THEN node_replace_child(W, t, node, rel, W.mem[node].left)
              ELSE LET curr == tree_leftmost(W, t, W.mem[node].right)
                   IN  node_replace_inherit(node_replace_cut(W, t, node, curr),
                                            t, node, rel, curr)
    IN  [W   |-> W1,
         ret |-> IF rel.root THEN W1.sets[t].root
                 ELSE IF rel.left THEN W1.mem[rel.par].left
                 ELSE W1.mem[rel.par].right]

\* void tree_remove(tree_t *tree, void *elem)
\* result: the world after free(node) and tree->size--, whether a node was
\* removed, and whether the prints of lines 607-609 read a node that was
\* freed
tree_remove(W, t, elem) ==
    LET node == node_contains(W, t, elem, W.sets[t].root)
    IN  IF node = NULL THEN [W |-> W, found |-> FALSE, stale |-> FALSE]
        ELSE LET R == node_replace(W, t, node)
                 W1 == [mem  |-> [n \in DOMAIN R.W.mem \ {node} |-> R.W.mem[n]],
                        sets |-> [R.W.sets EXCEPT ![t].size = @ - 1]]
             IN  [W |-> W1, found |-> TRUE,
                  stale |-> /\ W1.sets[t].size # 0
                            /\ \E f \in {"parent", "left", "right"} :
                                   /\ W1.mem[R.ret][f] # NULL
                                   /\ W1.mem[R.ret][f] \notin DOMAIN W1.mem]

\* debug_remove calls tree_remove twice
MaxRemoves == 2

\* tree_remove(tree, &e); reading a freed node is undefined: the call
\* returns or the program ends there.  last counts the calls made and tells
\* whether a node was removed.
TreeRemove(elem) ==
    /\ ~hung
    /\ "calls" \in DOMAIN last => last.calls < MaxRemoves
    /\ LET R == tree_remove(World, T, elem)
       IN  /\ mem' = R.W.mem
           /\ sets' = R.W.sets
           /\ last' = [op |-> "tree_remove", arg |-> elem, ret |-> NULL,
                       flag |-> R.found, rots |-> 0, c1 |-> 0,
                       calls |-> IF "calls" \in DOMAIN last THEN last.calls + 1 ELSE 1]
           /\ hung' \in IF R.stale THEN BOOLEAN ELSE {FALSE}
    /\ UNCHANGED <<iter, yielded, snap, inserted, first, nNull>>

\* the ints added and removed; their differences fit int8_t
RemVals == 6

\* the tree is built by tree_add, then elements are removed
NextTreeRemove ==
    \/ \E e \in 1..RemVals : last.op \in {"tree_create", "tree_add"} /\ TreeAdd(e)
    \/ \E e \in 1..RemVals : TreeRemove(e)

SpecTreeRemove == InitTree /\ [][NextTreeRemove]_vars

(* ----------------------- claims on tree_remove ------------------------- *)

\* the elements of the tree in order
TreeContents(m, st) == InOrder(m, st[T].root)

\* the sequence q without its elements equal to e
Without(q, e) == SelectSeq(q, LAMBDA x : x # e)

\* C37: tree_remove of an element that is in the tree removes exactly that
\* element: the size is one less and the in-order contents are the
\* contents before without that element; tree_remove of an element that is
\* not in the tree changes nothing.
C37_RemoveExactly ==
    [][last'.op = "tree_remove" =>
          IF \E i \in 1..Len(TreeContents(mem, sets)) :
                 compare_ints(last'.arg, TreeContents(mem, sets)[i]) = 0
          THEN /\ sets'[T].size = sets[T].size - 1
               /\ \E i \in 1..Len(TreeContents(mem, sets)) :
                      /\ compare_ints(last'.arg, TreeContents(mem, sets)[i]) = 0
                      /\ TreeContents(mem', sets') =
                             Without(TreeContents(mem, sets), TreeContents(mem, sets)[i])
          ELSE mem' = mem /\ sets' = sets]_vars

\* C38: tree_remove never writes to the NIL sentinel: after a removal its
\* parent, left, right and elem are NULL and it is black.
C38_RemoveKeepsSentinel == last.op = "tree_remove" => mem[TNIL] = tree_sentinel

\* tree_add leaves the sentinel as tree_create made it
AddKeepsSentinel == last.op = "tree_add" => mem[TNIL] = tree_sentinel

\* where C37 holds: the node removed has at most one child, or its
\* successor has no right child that the cut would drop
RemoveExactlyUncut ==
    [][(/\ last'.op = "tree_remove"
        /\ last'.flag
        /\ LET node == node_contains(World, T, last'.arg, sets[T].root)
           IN  \/ mem[node].left = TNIL
               \/ mem[node].right = TNIL
               \/ tree_leftmost(World, T, mem[node].right) = mem[node].right
               \/ mem[tree_leftmost(World, T, mem[node].right)].right = TNIL)
       => /\ sets'[T].size = sets[T].size - 1
          /\ TreeContents(mem', sets') =
                 Without(TreeContents(mem, sets), mem[node_contains(World, T, last'.arg, sets[T].root)].elem)]_vars

\* where C38 holds: the node removed has at most one child, or the node
\* that takes its place ends with a right child
RemoveKeepsSentinelUnlessLeafRight ==
    [][(/\ last'.op = "tree_remove"
        /\ last'.flag
        /\ LET node == node_contains(World, T, last'.arg, sets[T].root)
           IN  \/ mem[node].left = TNIL
               \/ mem[node].right = TNIL
               \/ tree_leftmost(World, T, mem[node].right) # mem[node].right
               \/ mem[mem[node].right].right # TNIL)
       => mem'[TNIL] = mem[TNIL]]_vars

=============================================================================
